---------------------------- MODULE Spec2Model ----------------------------
(***************************************************************************)
(* Model of hw/vfio/common.c: the VFIO container / group / address-space   *)
(* lifecycle, the DMA map engine, the memory listener, the guest-IOMMU     *)
(* notifier and the region mmap helpers.                                    *)
(*                                                                         *)
(* Addresses are hwaddr values of AddrBits bits (the code uses 64);        *)
(* arithmetic on them is modulo 2^AddrBits.  Section sizes are Int128 and  *)
(* are kept as unbounded integers.  The host kernel is reached through     *)
(* ioctl/mmap/open; each such call is a nondeterministic choice among the  *)
(* outcomes the host can produce.                                          *)
(***************************************************************************)
EXTENDS Integers, Sequences, FiniteSets, TLC

VARIABLES
    vfio_address_spaces,  \* QLIST of VFIOAddressSpace, head first
    vfio_group_list,      \* QLIST of VFIOGroup ids, head first
    containers,           \* container id -> VFIOContainer record or NoContainer
    groups,               \* group id -> VFIOGroup record or NoGroup
    devices,              \* device -> VFIODevice record
    reset_registered,     \* number of registrations of vfio_reset_handler
    open_fds,             \* host descriptors currently open
    stale_notifiers,      \* guest IOMMUs whose notifier outlived its container
    lcont,                \* the container the memory listener events go to
    added,                \* sections the memory core has added and not deleted
    region,               \* one VFIORegion
    aborted,              \* hw_error()/assert ended the process
    hist                  \* what the last operation did (requests, result)

vars == << vfio_address_spaces, vfio_group_list, containers, groups, devices,
           reset_registered, open_fds, stale_notifiers, lcont, added, region,
           aborted, hist >>

---------------------------------------------------------------------------
(* Bounds of the model *)

AddrBits == 6          \* width of hwaddr in the model (64 in the code)
MaxReplay == 2         \* translations a guest IOMMU holds at replay time
MaxGroups == 2
MaxDevices == 2        \* devices
MaxMmaps == 3          \* mmap sub-windows of a region
MaxUnref == 1          \* references a listener may release beyond those it took
MaxAdded == 2          \* sections in the flat view at a time

(* Program constants *)

TARGET_PAGE_BITS == 2  \* log2 of the target page size
EPERM == 1
ENOMEM == 12
EFAULT == 14
EBUSY == 16
ENODEV == 19
EINVAL == 22
EIO == 5
VFIO_API_VERSION == 0

TARGET_PAGE_SIZE == 2 ^ TARGET_PAGE_BITS
AddrSpaceSize == 2 ^ AddrBits
HWADDR_MAX == AddrSpaceSize - 1
TopBit == 2 ^ (AddrBits - 1)

Min(a, b) == IF a <= b THEN a ELSE b

\* x & y on naturals
RECURSIVE BitAnd(_, _)
BitAnd(x, y) ==
    IF x = 0 \/ y = 0 THEN 0
    ELSE (IF x % 2 = 1 /\ y % 2 = 1 THEN 1 ELSE 0) + 2 * BitAnd(x \div 2, y \div 2)

\* ctz64(x) for x # 0
RECURSIVE ctz64(_)
ctz64(x) == IF x % 2 = 1 THEN 0 ELSE 1 + ctz64(x \div 2)

\* TARGET_PAGE_ALIGN(x): round up to a page, in hwaddr arithmetic
TARGET_PAGE_ALIGN(x) ==
    (((x + TARGET_PAGE_SIZE - 1) \div TARGET_PAGE_SIZE) * TARGET_PAGE_SIZE)
        % AddrSpaceSize

\* x & TARGET_PAGE_MASK
PageFloor(x) == (x \div TARGET_PAGE_SIZE) * TARGET_PAGE_SIZE

\* x & ~TARGET_PAGE_MASK
PageOffset(x) == x % TARGET_PAGE_SIZE

---------------------------------------------------------------------------
(* Memory regions of the guest, as the memory core describes them *)

MRs == {"ram0", "ram1", "rom", "iommu", "mmio"}

memory_region_is_ram(mr) == mr \in {"ram0", "ram1", "rom"}
memory_region_is_iommu(mr) == mr = "iommu"
mr_readonly(mr) == mr = "rom"

\* memory_region_get_ram_ptr(mr): host virtual address of the RAM block
memory_region_get_ram_ptr(mr) ==
    CASE mr = "ram0" -> 1000
      [] mr = "ram1" -> 2000
      [] mr = "rom" -> 3000
      [] OTHER -> 0

NoRefs == [mr \in MRs |-> 0]

---------------------------------------------------------------------------
(* The host IOMMU behind a container descriptor.  dma is the set of page   *)
(* addresses that currently have a translation.                            *)

PagesOf(iova, size) ==
    {p \in 0 .. HWADDR_MAX :
        /\ p % TARGET_PAGE_SIZE = 0
        /\ p + TARGET_PAGE_SIZE > iova
        /\ p < iova + size}

\* A host request as the host sees it, with the errno it answered (0: success)
MapReq(iova, size, vaddr, readonly, e) ==
    [req |-> "map", iova |-> iova, size |-> size, vaddr |-> vaddr,
     write |-> ~readonly, err |-> e]

UnmapReq(iova, size, e) ==
    [req |-> "unmap", iova |-> iova, size |-> size, vaddr |-> 0,
     write |-> FALSE, err |-> e]

\* ioctl(container->fd, VFIO_IOMMU_MAP_DMA): the errno values the host may
\* answer with (0 is success).  A range that overlaps an existing
\* translation is never accepted.
ioctl_MAP_DMA(dma, iova, size) ==
    IF PagesOf(iova, size) \cap dma # {}
    THEN {EBUSY, ENOMEM}
    ELSE {0, EBUSY, ENOMEM}

\* ioctl(container->fd, VFIO_IOMMU_UNMAP_DMA): errno values the host may
\* answer with
ioctl_UNMAP_DMA(dma, iova, size) == {0, EINVAL}

---------------------------------------------------------------------------
(* DMA map engine.  Each operator yields the set of possible runs of the   *)
(* function: its return value, the host translations afterwards and the    *)
(* host requests it issued, in order.                                      *)

vfio_dma_unmap(dma, iova, size) ==
    { [ret |-> IF e = 0 THEN 0 ELSE -e,
       dma |-> IF e = 0 THEN dma \ PagesOf(iova, size) ELSE dma,
       reqs |-> << UnmapReq(iova, size, e) >>] :
      e \in ioctl_UNMAP_DMA(dma, iova, size) }

\* second ioctl(VFIO_IOMMU_MAP_DMA) of vfio_dma_map, after a busy first try
\* and a successful unmap (run u)
dma_map_retry(u, iova, size, vaddr, readonly, e1) ==
    { [ret |-> IF e2 = 0 THEN 0 ELSE -e2,
       dma |-> IF e2 = 0 THEN u.dma \cup PagesOf(iova, size) ELSE u.dma,
       reqs |-> << MapReq(iova, size, vaddr, readonly, e1) >> \o u.reqs
                \o << MapReq(iova, size, vaddr, readonly, e2) >>] :
      e2 \in ioctl_MAP_DMA(u.dma, iova, size) }

\* variant: a busy answer is reported like any other failure
vfio_dma_map_no_retry(dma, iova, size, vaddr, readonly) ==
    { [ret |-> IF e1 = 0 THEN 0 ELSE -e1,
       dma |-> IF e1 = 0 THEN dma \cup PagesOf(iova, size) ELSE dma,
       reqs |-> << MapReq(iova, size, vaddr, readonly, e1) >>] :
      e1 \in ioctl_MAP_DMA(dma, iova, size) }

\* variant: retries the map although the unmap failed
vfio_dma_map_retry_after_failed_unmap(dma, iova, size, vaddr, readonly) ==
    UNION { IF e1 = 0
            THEN { [ret |-> 0, dma |-> dma \cup PagesOf(iova, size),
                    reqs |-> << MapReq(iova, size, vaddr, readonly, e1) >>] }
            ELSE IF e1 = EBUSY
            THEN UNION { dma_map_retry(u, iova, size, vaddr, readonly, e1) :
                         u \in vfio_dma_unmap(dma, iova, size) }
            ELSE { [ret |-> -e1, dma |-> dma,
                    reqs |-> << MapReq(iova, size, vaddr, readonly, e1) >>] } :
            e1 \in ioctl_MAP_DMA(dma, iova, size) }

vfio_dma_map(dma, iova, size, vaddr, readonly) ==
    UNION { IF e1 = 0
            THEN { [ret |-> 0, dma |-> dma \cup PagesOf(iova, size),
                    reqs |-> << MapReq(iova, size, vaddr, readonly, e1) >>] }
            ELSE IF e1 = EBUSY
            THEN UNION { IF u.ret = 0
                         THEN dma_map_retry(u, iova, size, vaddr, readonly, e1)
                         ELSE \* errno is now the unmap's
                              { [ret |-> u.ret, dma |-> u.dma,
                                 reqs |-> << MapReq(iova, size, vaddr, readonly, e1) >>
                                          \o u.reqs] } :
                         u \in vfio_dma_unmap(dma, iova, size) }
            ELSE { [ret |-> -e1, dma |-> dma,
                    reqs |-> << MapReq(iova, size, vaddr, readonly, e1) >>] } :
            e1 \in ioctl_MAP_DMA(dma, iova, size) }

---------------------------------------------------------------------------
(* Guest IOMMU notifier *)

IOMMU_NONE == 0
IOMMU_RO == 1
IOMMU_WO == 2
IOMMU_RW == 3

\* address_space_memory: what the system address space holds at an address.
\* RAM in the first half of the low pages, then a ROM page, then MMIO.
SysRanges ==
    << [base |-> 0, size |-> 3 * TARGET_PAGE_SIZE, mr |-> "ram0"],
       [base |-> 3 * TARGET_PAGE_SIZE, size |-> TARGET_PAGE_SIZE, mr |-> "rom"],
       [base |-> 4 * TARGET_PAGE_SIZE, size |-> TARGET_PAGE_SIZE, mr |-> "mmio"],
       [base |-> 5 * TARGET_PAGE_SIZE, size |-> TARGET_PAGE_SIZE, mr |-> "ram1"] >>

\* address_space_translate(&address_space_memory, addr, &xlat, &len, ...):
\* the region at addr, the offset in it, and len cut at the region's end
address_space_translate(addr, len) ==
    LET hits == {i \in 1 .. Len(SysRanges) :
                    /\ SysRanges[i].base <= addr
                    /\ addr < SysRanges[i].base + SysRanges[i].size}
    IN  IF hits = {}
        THEN [mr |-> "mmio", xlat |-> addr, len |-> len]
        ELSE LET r == SysRanges[CHOOSE i \in hits : TRUE]
             IN  [mr |-> r.mr, xlat |-> addr - r.base,
                  len |-> Min(len, r.base + r.size - addr)]

\* A run of a listener or notifier callback on container c
Run(c, reqs, ab) == [c |-> c, reqs |-> reqs, aborted |-> ab]

\* variant: the write permission of the map follows the guest permission
\* alone, whether or not the target region is read-only
vfio_iommu_map_notify_ignore_readonly(c, iotlb) ==
    LET t == address_space_translate(iotlb.translated_addr,
                                     iotlb.addr_mask + 1)
    IN  IF ~memory_region_is_ram(t.mr) \/ BitAnd(t.len, iotlb.addr_mask) # 0
        THEN { Run(c, << >>, FALSE) }
        ELSE IF BitAnd(iotlb.perm, IOMMU_RW) # IOMMU_NONE
        THEN { Run([c EXCEPT !.dma = m.dma], m.reqs, FALSE) :
               m \in vfio_dma_map(c.dma, iotlb.iova, iotlb.addr_mask + 1,
                                  memory_region_get_ram_ptr(t.mr) + t.xlat,
                                  BitAnd(iotlb.perm, IOMMU_WO) = 0) }
        ELSE { Run([c EXCEPT !.dma = u.dma], u.reqs, FALSE) :
               u \in vfio_dma_unmap(c.dma, iotlb.iova, iotlb.addr_mask + 1) }

vfio_iommu_map_notify(c, iotlb) ==
    LET t == address_space_translate(iotlb.translated_addr,
                                     iotlb.addr_mask + 1)
    IN  IF ~memory_region_is_ram(t.mr)
        THEN { Run(c, << >>, FALSE) }
        ELSE IF BitAnd(t.len, iotlb.addr_mask) # 0
        THEN { Run(c, << >>, FALSE) }
        ELSE IF BitAnd(iotlb.perm, IOMMU_RW) # IOMMU_NONE
        THEN { Run([c EXCEPT !.dma = m.dma], m.reqs, FALSE) :
               m \in vfio_dma_map(c.dma, iotlb.iova, iotlb.addr_mask + 1,
                                  memory_region_get_ram_ptr(t.mr) + t.xlat,
                                  BitAnd(iotlb.perm, IOMMU_WO) = 0
                                      \/ mr_readonly(t.mr)) }
        ELSE { Run([c EXCEPT !.dma = u.dma], u.reqs, FALSE) :
               u \in vfio_dma_unmap(c.dma, iotlb.iova, iotlb.addr_mask + 1) }

\* variant: the page-size bitmap itself is taken as the step of the replay
vfio_container_granularity_bitmap(c) == c.iova_pgsizes

vfio_container_granularity(c) == 2 ^ ctz64(c.iova_pgsizes)

\* size of the guest IOMMU region
IommuRegionSize == MaxReplay * TARGET_PAGE_SIZE

NoEntry == [iova |-> 0, addr_mask |-> 0, translated_addr |-> 0,
            perm |-> IOMMU_NONE]

\* iommu_ops->translate(mr, addr): the entry of the guest table tbl that
\* covers addr, or an entry without permission
iommu_translate(tbl, addr) ==
    LET hits == {i \in 1 .. Len(tbl) :
                    /\ tbl[i].iova <= addr
                    /\ addr <= tbl[i].iova + tbl[i].addr_mask}
    IN  IF hits = {} THEN NoEntry ELSE tbl[CHOOSE i \in hits : TRUE]

\* memory_region_iommu_replay(mr, n, granularity, false): walk the region
\* from addr in steps of granularity and notify every entry with permission
RECURSIVE memory_region_iommu_replay(_, _, _, _)
memory_region_iommu_replay(r, tbl, granularity, addr) ==
    IF addr >= IommuRegionSize
    THEN { r }
    ELSE LET iotlb == iommu_translate(tbl, addr)
             after == IF iotlb.perm # IOMMU_NONE
                      THEN { Run(n.c, r.reqs \o n.reqs, FALSE) :
                             n \in vfio_iommu_map_notify(r.c, iotlb) }
                      ELSE { r }
         IN  UNION { memory_region_iommu_replay(r2, tbl, granularity,
                                                addr + granularity) :
                     r2 \in after }

---------------------------------------------------------------------------
(* Memory listener *)

Section(mr, oas, owr, size) ==
    [mr |-> mr, offset_within_address_space |-> oas,
     offset_within_region |-> owr, size |-> size,
     readonly |-> mr_readonly(mr)]

\* variant: the top bit of the offset is not looked at
vfio_listener_skipped_section_no_top_bit(section) ==
    ~memory_region_is_ram(section.mr) /\ ~memory_region_is_iommu(section.mr)

vfio_listener_skipped_section(section) ==
    \/ (~memory_region_is_ram(section.mr)
            /\ ~memory_region_is_iommu(section.mr))
    \/ BitAnd(section.offset_within_address_space, TopBit) # 0

\* the sub-page bits of the two offsets differ (lines 338-339, 440-441)
Unaligned(section) ==
    PageOffset(section.offset_within_address_space)
        # PageOffset(section.offset_within_region)

\* lines 344-347 of vfio_listener_region_add: iova is the offset rounded up
\* to a page in hwaddr arithmetic, llend the end of the section rounded down
\* to a page in Int128 arithmetic, which does not wrap
region_add_interval(section) ==
    [iova |-> TARGET_PAGE_ALIGN(section.offset_within_address_space),
     llend |-> PageFloor(section.offset_within_address_space + section.size)]

\* lines 467-469 of vfio_listener_region_del, for a size int128_get64
\* accepts: end is computed in hwaddr arithmetic and wraps at 2^64
region_del_interval(section) ==
    [iova |-> TARGET_PAGE_ALIGN(section.offset_within_address_space),
     end |-> PageFloor((section.offset_within_address_space + section.size)
                           % AddrSpaceSize)]

\* variant: a later failure replaces the error recorded first
region_add_fail_overwrite(c, ret, reqs) ==
    IF ~c.initialized
    THEN Run([c EXCEPT !.error = ret], reqs, FALSE)
    ELSE Run(c, reqs, TRUE)

\* the fail: label of vfio_listener_region_add
region_add_fail(c, ret, reqs) ==
    IF ~c.initialized
    THEN Run(IF c.error = 0 THEN [c EXCEPT !.error = ret] ELSE c, reqs, FALSE)
    ELSE Run(c, reqs, TRUE)  \* hw_error

memory_region_ref(c, mr) == [c EXCEPT !.refs[mr] = @ + 1]
memory_region_unref(c, mr) == [c EXCEPT !.refs[mr] = @ - 1]

\* the plain-RAM tail of vfio_listener_region_add (lines 392-408)
region_add_ram(c, section, iova, end) ==
    LET vaddr == memory_region_get_ram_ptr(section.mr)
                   + section.offset_within_region
                   + (iova - section.offset_within_address_space)
    IN  { IF m.ret # 0
          THEN region_add_fail([c EXCEPT !.dma = m.dma], m.ret, m.reqs)
          ELSE Run([c EXCEPT !.dma = m.dma], m.reqs, FALSE) :
          m \in vfio_dma_map(c.dma, iova, end - iova, vaddr,
                             section.readonly) }

\* the guest-IOMMU branch of vfio_listener_region_add (lines 364-390);
\* tbl is the guest IOMMU's table at the time of the call
region_add_iommu(c, section, tbl) ==
    memory_region_iommu_replay(
        Run([c EXCEPT !.giommu_list = << section.mr >> \o @], << >>, FALSE),
        tbl, vfio_container_granularity(c), 0)

\* variant: an unaligned section is mapped like any other
vfio_listener_region_add_no_align_check(c, section, tbl) ==
    IF vfio_listener_skipped_section(section)
    THEN { Run(c, << >>, FALSE) }
    ELSE LET iova == TARGET_PAGE_ALIGN(section.offset_within_address_space)
             llend == PageFloor(section.offset_within_address_space
                                    + section.size)
         IN  IF iova >= llend \/ llend >= AddrSpaceSize
             THEN { Run(c, << >>, FALSE) }
             ELSE region_add_ram(memory_region_ref(c, section.mr), section,
                                 iova, llend)

\* variant: the reference is taken before the bounds are checked
vfio_listener_region_add_ref_first(c, section, tbl) ==
    IF vfio_listener_skipped_section(section) \/ Unaligned(section)
    THEN { Run(c, << >>, FALSE) }
    ELSE LET iova == TARGET_PAGE_ALIGN(section.offset_within_address_space)
             llend == PageFloor(section.offset_within_address_space
                                    + section.size)
             c1 == memory_region_ref(c, section.mr)
         IN  IF iova >= llend
             THEN { Run(c, << >>, FALSE) }
             ELSE IF llend >= AddrSpaceSize
             THEN { Run(c, << >>, TRUE) }
             ELSE IF iova < c.min_iova \/ llend - 1 > c.max_iova
             THEN { region_add_fail(c1, -EFAULT, << >>) }
             ELSE IF memory_region_is_iommu(section.mr)
             THEN region_add_iommu(c1, section, tbl)
             ELSE region_add_ram(c1, section, iova, llend)

vfio_listener_region_add(c, section, tbl) ==
    IF vfio_listener_skipped_section(section)
    THEN { Run(c, << >>, FALSE) }
    ELSE IF Unaligned(section)
    THEN { Run(c, << >>, FALSE) }
    ELSE LET iova == region_add_interval(section).iova
             llend == region_add_interval(section).llend
         IN  IF iova >= llend
             THEN { Run(c, << >>, FALSE) }
             ELSE IF llend >= AddrSpaceSize
             THEN { Run(c, << >>, TRUE) }  \* int128_get64 asserts !hi
             ELSE IF iova < c.min_iova \/ llend - 1 > c.max_iova
             THEN { region_add_fail(c, -EFAULT, << >>) }
             ELSE IF memory_region_is_iommu(section.mr)
             THEN region_add_iommu(memory_region_ref(c, section.mr),
                                   section, tbl)
             ELSE region_add_ram(memory_region_ref(c, section.mr), section,
                                 iova, llend)

\* QLIST_FOREACH ... QLIST_REMOVE of the first giommu whose iommu is mr
RECURSIVE giommu_remove(_, _)
giommu_remove(list, mr) ==
    IF list = << >> THEN << >>
    ELSE IF Head(list) = mr THEN Tail(list)
    ELSE << Head(list) >> \o giommu_remove(Tail(list), mr)

\* variant: region_del forgets the host unmap
vfio_listener_region_del_no_unmap(c, section) ==
    IF vfio_listener_skipped_section(section) \/ Unaligned(section)
    THEN { Run(c, << >>, FALSE) }
    ELSE { Run(memory_region_unref(c, section.mr), << >>, FALSE) }

\* variant: region_del of a guest-IOMMU section returns once the binding
\* is released
vfio_listener_region_del_iommu_returns(c, section) ==
    IF vfio_listener_skipped_section(section) \/ Unaligned(section)
    THEN { Run(c, << >>, FALSE) }
    ELSE IF memory_region_is_iommu(section.mr)
    THEN { Run([c EXCEPT !.giommu_list = giommu_remove(@, section.mr)],
               << >>, FALSE) }
    ELSE LET iova == TARGET_PAGE_ALIGN(section.offset_within_address_space)
             end == PageFloor((section.offset_within_address_space
                                  + section.size) % AddrSpaceSize)
         IN  IF iova >= end
             THEN { Run(c, << >>, FALSE) }
             ELSE { Run(memory_region_unref([c EXCEPT !.dma = u.dma],
                                            section.mr),
                        u.reqs, FALSE) :
                    u \in vfio_dma_unmap(c.dma, iova, end - iova) }

vfio_listener_region_del(c, section) ==
    IF vfio_listener_skipped_section(section)
    THEN { Run(c, << >>, FALSE) }
    ELSE IF Unaligned(section)
    THEN { Run(c, << >>, FALSE) }
    ELSE LET c1 == IF memory_region_is_iommu(section.mr)
                   THEN [c EXCEPT !.giommu_list =
                                     giommu_remove(@, section.mr)]
                   ELSE c
             iova == region_del_interval(section).iova
         IN  IF section.size >= AddrSpaceSize
             THEN { Run(c1, << >>, TRUE) }  \* int128_get64 asserts !hi
             ELSE LET end == region_del_interval(section).end
                  IN  IF iova >= end
                      THEN { Run(c1, << >>, FALSE) }
                      ELSE { Run(memory_region_unref(
                                     [c1 EXCEPT !.dma = u.dma], section.mr),
                                 u.reqs, FALSE) :
                             u \in vfio_dma_unmap(c1.dma, iova, end - iova) }

---------------------------------------------------------------------------
(* Containers *)

ASes == {"as0", "as1"}

NoContainer ==
    [space |-> "none", fd |-> 0, min_iova |-> 0, max_iova |-> 0,
     iova_pgsizes |-> 0, initialized |-> FALSE, error |-> 0,
     listener |-> FALSE, group_list |-> << >>, giommu_list |-> << >>,
     dma |-> {}, refs |-> NoRefs]

NoGroup == [fd |-> 0, groupid |-> 0, container |-> 0, device_list |-> << >>]
NoDevice == [group |-> 0, needs_reset |-> FALSE]

\* the container vfio_connect_container builds for a Type1 IOMMU
Type1Container(as, fd, pgsizes) ==
    [NoContainer EXCEPT !.space = as, !.fd = fd, !.min_iova = 0,
                        !.max_iova = HWADDR_MAX, !.iova_pgsizes = pgsizes]

\* the container vfio_connect_container builds for an sPAPR TCE IOMMU
SpaprContainer(as, fd, start, size) ==
    [NoContainer EXCEPT !.space = as, !.fd = fd, !.min_iova = start,
                        !.max_iova = (start + size - 1) % AddrSpaceSize,
                        !.iova_pgsizes = TARGET_PAGE_SIZE]

\* the DMA window an sPAPR host reports
Dma32WindowStart == TARGET_PAGE_SIZE
Dma32WindowSize == 4 * TARGET_PAGE_SIZE

---------------------------------------------------------------------------
(* Inputs of the memory listener: sections of a flat view *)

P == TARGET_PAGE_SIZE

Sections ==
    { Section("ram0", 0, 0, 2 * P),                \* [0, 2P)
      Section("ram1", 2 * P + 1, 1, 2 * P),        \* aligned part [3P, 4P)
      Section("rom", 5 * P, 0, P),                 \* read-only, [5P, 6P)
      Section("ram1", 6 * P + 1, 2, 2 * P),        \* sub-page bits differ
      Section("ram0", 6 * P + 1, 1, 2),            \* no whole page inside
      Section("mmio", 7 * P, 0, P),                \* neither RAM nor IOMMU
      Section("ram0", TopBit, 0, P),               \* upper half
      Section("iommu", 0, 0, IommuRegionSize),     \* guest IOMMU
      \* a guest IOMMU window from the second page to the top of the
      \* address space: offset + size is 2^AddrBits
      Section("iommu", P, 0, AddrSpaceSize - P) }

Entry(iova, mask, taddr, perm) ==
    [iova |-> iova, addr_mask |-> mask, translated_addr |-> taddr,
     perm |-> perm]

\* tables a guest IOMMU can hold when it is replayed
GuestTables ==
    { << >>,
      << Entry(0, P - 1, 0, IOMMU_RW) >>,
      << Entry(0, P - 1, P, IOMMU_RO), Entry(P, P - 1, 4 * P, IOMMU_RW) >>,
      << Entry(0, 2 * P - 1, 0, IOMMU_RW) >>,
      << Entry(P, P - 1, 3 * P, IOMMU_WO) >> }

\* invalidations a guest IOMMU can notify
Notifications ==
    { Entry(0, P - 1, 0, IOMMU_RW),
      Entry(P, P - 1, 3 * P, IOMMU_RW),
      Entry(P, P - 1, 5 * P, IOMMU_RO),
      Entry(0, 2 * P - 1, 2 * P, IOMMU_RW),    \* target shorter than the mask
      Entry(0, P - 1, 4 * P, IOMMU_RW),        \* target is not RAM
      Entry(0, P - 1, 0, IOMMU_NONE),
      Entry(P, P - 1, 4 * P, IOMMU_NONE) }

SecEnd(s) == s.offset_within_address_space + s.size

Overlap(s, t) ==
    /\ s.offset_within_address_space < SecEnd(t)
    /\ t.offset_within_address_space < SecEnd(s)

---------------------------------------------------------------------------
(* The memory listener of one connected container at run time *)

NoSection == Section("mmio", 0, 0, 0)

\* What the last callback did: its input, the host requests it issued, the
\* host translations before it, and, for a region_del that directly follows
\* the region_add of the same section, the translations before that add.
ListenerHist(op, sec, iotlb, r, pre, h) ==
    [op |-> op, section |-> sec, iotlb |-> iotlb, reqs |-> r.reqs,
     predma |-> pre.dma,
     after_add |-> op = "region_del" /\ h.op = "region_add"
                     /\ h.section = sec,
     adddma |-> IF op = "region_del" /\ h.op = "region_add"
                     /\ h.section = sec
                THEN h.predma ELSE {}]

LifeIdle ==
    /\ vfio_address_spaces = << >>
    /\ vfio_group_list = << >>
    /\ containers = [c \in 1 .. MaxGroups |-> NoContainer]
    /\ groups = [g \in 1 .. MaxGroups |-> NoGroup]
    /\ devices = [d \in 1 .. MaxDevices |-> NoDevice]
    /\ reset_registered = 0
    /\ open_fds = {}
    /\ stale_notifiers = {}

\* a zeroed VFIORegion; host is the set of windows whose mmap() is live
NoRegion ==
    [mem |-> FALSE, flags |-> {}, fd_offset |-> 0, nr_mmaps |-> 0,
     mmaps |-> << >>, host |-> {}, freed |-> FALSE]

RegionIdle == region = NoRegion

\* iova_pgsizes a Type1 host reports to the listener's container: pages of
\* one and of two target pages
ListenerPgSizes == TARGET_PAGE_SIZE + 2 * TARGET_PAGE_SIZE

ListenerInit ==
    /\ LifeIdle
    /\ RegionIdle
    /\ lcont \in
         { [Type1Container("as0", 1, ListenerPgSizes) EXCEPT
                !.initialized = TRUE, !.listener = TRUE, !.group_list = << 1 >>],
           [SpaprContainer("as0", 1, Dma32WindowStart, Dma32WindowSize) EXCEPT
                !.initialized = TRUE, !.listener = TRUE, !.group_list = << 1 >>] }
    /\ added = {}
    /\ aborted = FALSE
    /\ hist = [op |-> "init", section |-> NoSection, iotlb |-> NoEntry,
               reqs |-> << >>, predma |-> {}, after_add |-> FALSE,
               adddma |-> {}]

LifeVars == << vfio_address_spaces, vfio_group_list, containers, groups,
               devices, reset_registered, open_fds, stale_notifiers >>

\* the memory core adds a section to the flat view: listener->region_add
RegionAdd(sec, tbl) ==
    /\ ~aborted
    /\ lcont.listener
    /\ sec \notin added
    /\ \A t \in added : ~Overlap(sec, t)
    /\ Cardinality(added) < MaxAdded
    /\ \A mr \in MRs : lcont.refs[mr] > -MaxUnref
    /\ \E r \in vfio_listener_region_add(lcont, sec, tbl) :
          /\ lcont' = r.c
          /\ aborted' = r.aborted
          /\ hist' = ListenerHist("region_add", sec, NoEntry, r, lcont, hist)
    /\ added' = added \cup {sec}
    /\ UNCHANGED << LifeVars, region >>

\* the memory core removes a section it added: listener->region_del
RegionDel(sec) ==
    /\ ~aborted
    /\ lcont.listener
    /\ sec \in added
    /\ \E r \in vfio_listener_region_del(lcont, sec) :
          /\ lcont' = r.c
          /\ aborted' = r.aborted
          /\ hist' = ListenerHist("region_del", sec, NoEntry, r, lcont, hist)
    /\ added' = added \ {sec}
    /\ UNCHANGED << LifeVars, region >>

\* the guest IOMMU notifies an invalidation: giommu->n.notify
IommuNotify(iotlb) ==
    /\ ~aborted
    /\ lcont.giommu_list # << >>
    /\ \E r \in vfio_iommu_map_notify(lcont, iotlb) :
          /\ lcont' = r.c
          /\ aborted' = r.aborted
          /\ hist' = ListenerHist("notify", NoSection, iotlb, r, lcont, hist)
    /\ UNCHANGED << LifeVars, region, added >>

ListenerNext ==
    \/ \E sec \in Sections :
          \E tbl \in (IF memory_region_is_iommu(sec.mr)
                       THEN GuestTables ELSE { << >> }) :
             RegionAdd(sec, tbl)
    \/ \E sec \in Sections : RegionDel(sec)
    \/ \E iotlb \in Notifications : IommuNotify(iotlb)

SpecListener == ListenerInit /\ [][ListenerNext]_vars

---------------------------------------------------------------------------
(* The memory listener from its registration on: region_add callbacks on   *)
(* the container being set up, then the end of vfio_connect_container,     *)
(* then the callbacks at run time                                          *)

SetupInit ==
    /\ LifeIdle
    /\ RegionIdle
    /\ lcont \in
         { [Type1Container("as0", 1, ListenerPgSizes) EXCEPT !.listener = TRUE],
           [SpaprContainer("as0", 1, Dma32WindowStart, Dma32WindowSize)
                EXCEPT !.listener = TRUE] }
    /\ added = {}
    /\ aborted = FALSE
    /\ hist = [op |-> "init", section |-> NoSection, iotlb |-> NoEntry,
               reqs |-> << >>, predma |-> {}, after_add |-> FALSE,
               adddma |-> {}]

\* lines 882-896: memory_listener_register has returned
ListenerRegistered ==
    /\ ~aborted
    /\ lcont.listener /\ ~lcont.initialized
    /\ lcont' = IF lcont.error # 0
                THEN [lcont EXCEPT !.listener = FALSE]
                ELSE [lcont EXCEPT !.initialized = TRUE,
                                   !.group_list = << 1 >>]
    /\ hist' = ListenerHist("registered", NoSection, NoEntry,
                            Run(lcont, << >>, FALSE), lcont, hist)
    /\ UNCHANGED << LifeVars, region, added, aborted >>

SetupNext ==
    \/ \E sec \in Sections :
          \E tbl \in (IF memory_region_is_iommu(sec.mr)
                       THEN GuestTables ELSE { << >> }) :
             RegionAdd(sec, tbl)
    \/ ListenerRegistered
    \/ \E sec \in Sections : lcont.initialized /\ RegionDel(sec)
    \/ \E iotlb \in Notifications : lcont.initialized /\ IommuNotify(iotlb)

SpecSetup == SetupInit /\ [][SetupNext]_vars

---------------------------------------------------------------------------
(* Address-space registry, containers and groups *)

Cids == 1 .. MaxGroups
Gids == 1 .. MaxGroups
Devs == 1 .. MaxDevices

GroupFd(gid) == << "group", gid >>
ContainerFd(cid) == << "container", cid >>
DeviceFd(dev) == << "device", dev >>

\* errno values of failing host calls
OpenErrnos == { ENODEV }
IoctlErrnos == { EIO }

InSeq(seq, x) == \E i \in 1 .. Len(seq) : seq[i] = x

\* QLIST_REMOVE of the element x
RECURSIVE SeqRemove(_, _)
SeqRemove(seq, x) ==
    IF seq = << >> THEN << >>
    ELSE IF Head(seq) = x THEN Tail(seq)
    ELSE << Head(seq) >> \o SeqRemove(Tail(seq), x)

\* index of the first entry for as, 0 if there is none (QLIST_FOREACH of
\* vfio_get_address_space)
SpaceIndex(spaces, as) ==
    IF \E i \in 1 .. Len(spaces) : spaces[i].as = as
    THEN CHOOSE i \in 1 .. Len(spaces) :
            /\ spaces[i].as = as
            /\ \A j \in 1 .. i - 1 : spaces[j].as # as
    ELSE 0

\* variant: the lookup does not compare the address space
vfio_get_address_space_any(spaces, as) ==
    IF spaces # << >> THEN spaces
    ELSE << [as |-> as, containers |-> << >>] >> \o spaces

\* the registry after vfio_get_address_space(as); the entry returned is the
\* first one for as
vfio_get_address_space(spaces, as) ==
    IF SpaceIndex(spaces, as) # 0
    THEN spaces
    ELSE << [as |-> as, containers |-> << >>] >> \o spaces

\* the entry vfio_get_address_space returned
SpaceOf(spaces, as) ==
    IF SpaceIndex(spaces, as) # 0 THEN spaces[SpaceIndex(spaces, as)]
    ELSE spaces[1]

SpacePos(spaces, as) ==
    IF SpaceIndex(spaces, as) # 0 THEN SpaceIndex(spaces, as) ELSE 1

\* variant: the entry is removed whether or not it holds containers
vfio_put_address_space_always(spaces, as) ==
    LET i == SpacePos(spaces, as)
    IN  SubSeq(spaces, 1, i - 1) \o SubSeq(spaces, i + 1, Len(spaces))

\* the registry after vfio_put_address_space(space)
vfio_put_address_space(spaces, as) ==
    LET i == SpacePos(spaces, as)
    IN  IF spaces[i].containers = << >>
        THEN SubSeq(spaces, 1, i - 1) \o SubSeq(spaces, i + 1, Len(spaces))
        ELSE spaces

\* sections of each address space's flat view when a listener registers
FlatView(as) ==
    IF as = "as0"
    THEN << Section("ram0", 0, 0, 2 * P), Section("rom", 5 * P, 0, P) >>
    ELSE << Section("iommu", 0, 0, IommuRegionSize) >>

\* memory_listener_register(&container->listener, as): region_add for every
\* section of the flat view, in order
RECURSIVE memory_listener_register(_, _, _)
memory_listener_register(r, secs, tbl) ==
    IF secs = << >> \/ r.aborted
    THEN { r }
    ELSE UNION { memory_listener_register(
                     Run(a.c, r.reqs \o a.reqs, a.aborted), Tail(secs), tbl) :
                 a \in vfio_listener_region_add(r.c, Head(secs), tbl) }

\* what vfio_connect_container returns: the state afterwards, the return
\* value, the step that failed ("ok" if none), the container it reused or
\* created (0 if none) and the last state of a container it built
ConnectResult(G, ret, step, reused, created, c, ab) ==
    [G |-> G, ret |-> ret, step |-> step, reused |-> reused,
     created |-> created, cfinal |-> c, aborted |-> ab]

Labels == << "listener_release_exit", "free_container_exit", "close_fd_exit",
             "put_space_exit" >>

LabelPos(l) == CHOOSE i \in 1 .. Len(Labels) : Labels[i] = l

\* variant: the failure path does not release the address-space entry
connect_exit_no_put_space(G, as, label, cid, c, ret, step) ==
    ConnectResult(
        [G EXCEPT !.fds = IF LabelPos(label) <= 3
                          THEN @ \ { ContainerFd(cid) } ELSE @],
        ret, step, 0, 0, c, FALSE)

\* the exit labels of vfio_connect_container (lines 897-909), entered at
\* label with the container c being built
connect_exit(G, as, label, cid, c, ret, step) ==
    LET c1 == IF LabelPos(label) <= 1
              THEN [c EXCEPT !.listener = FALSE]   \* vfio_listener_release
              ELSE c
        \* g_free(container): its guest-IOMMU notifiers stay registered
        stale1 == IF LabelPos(label) <= 2
                  THEN G.stale \cup { c1.giommu_list[i] :
                                       i \in 1 .. Len(c1.giommu_list) }
                  ELSE G.stale
        fds1 == IF LabelPos(label) <= 3
                THEN G.fds \ { ContainerFd(cid) }
                ELSE G.fds
    IN  ConnectResult(
            [G EXCEPT !.stale = stale1, !.fds = fds1,
                      !.spaces = vfio_put_address_space(@, as)],
            ret, step, 0, 0, c1, FALSE)

\* the first loop of vfio_connect_container: the host accepts the group in
\* the k-th container of the entry, after refusing the ones before it
connect_reuse(G, gid, as) ==
    LET cands == SpaceOf(G.spaces, as).containers
    IN  { ConnectResult(
              [G EXCEPT !.groups[gid].container = cands[k],
                        !.containers[cands[k]].group_list = << gid >> \o @],
              0, "ok", cands[k], 0, NoContainer, FALSE) :
          k \in 1 .. Len(cands) }

\* variant: the deferred error of the listener is not looked at
connect_finish_ignore_error(G, gid, as, cid, r) ==
    LET c1 == [r.c EXCEPT !.initialized = TRUE, !.group_list = << gid >>]
        i == SpacePos(G.spaces, as)
    IN  ConnectResult(
           [G EXCEPT !.containers[cid] = c1,
                     !.spaces[i].containers = << cid >> \o @,
                     !.groups[gid].container = cid],
           0, "ok", 0, cid, c1, FALSE)

\* lines 882-896: after memory_listener_register ran as r
connect_finish(G, gid, as, cid, r) ==
    IF r.aborted
    THEN ConnectResult(G, 0, "abort", 0, cid, r.c, TRUE)
    ELSE IF r.c.error # 0
    THEN connect_exit(G, as, "listener_release_exit", cid, r.c, r.c.error,
                      "listener")
    ELSE LET c1 == [r.c EXCEPT !.initialized = TRUE,
                               !.group_list = << gid >>]
             i == SpacePos(G.spaces, as)
         IN  ConnectResult(
                [G EXCEPT !.containers[cid] = c1,
                          !.spaces[i].containers = << cid >> \o @,
                          !.groups[gid].container = cid],
                0, "ok", 0, cid, c1, FALSE)

\* tables the guest IOMMU of an address space can hold when a listener
\* registers
RegisterTables == { << Entry(0, P - 1, 0, IOMMU_RW) >> }

\* lines 878-880: install the listener and register it
connect_listener(G, gid, as, cid, c) ==
    UNION { { connect_finish(G, gid, as, cid, r) :
              r \in memory_listener_register(
                        Run([c EXCEPT !.listener = TRUE], << >>, FALSE),
                        FlatView(as), tbl) } :
            tbl \in (IF \E i \in 1 .. Len(FlatView(as)) :
                           memory_region_is_iommu(FlatView(as)[i].mr)
                     THEN RegisterTables ELSE { << >> }) }

IommuModels == { "type1", "type1v2", "spapr", "none" }

\* iova_pgsizes a Type1 host leaves the container with: the default of one
\* page, which is also what VFIO_IOMMU_GET_INFO reports here
Type1PgSizes == { P }

\* DMA windows an sPAPR host may report: (start, size)
SpaprWindows == { << 0, 4 * P >>, << P, 4 * P >> }

\* lines 789-876: the IOMMU model the host supports decides the container
connect_model(G, gid, as, cid, model) ==
    LET c0 == [NoContainer EXCEPT !.space = as, !.fd = cid]
        fail(step, e) ==
            connect_exit(G, as, "free_container_exit", cid, c0, -e, step)
    IN  IF model \in { "type1", "type1v2" }
        THEN { fail("set_container", e) : e \in IoctlErrnos }
             \cup { fail("set_iommu", e) : e \in IoctlErrnos }
             \cup UNION { connect_listener(G, gid, as, cid,
                                           Type1Container(as, cid, pg)) :
                          pg \in Type1PgSizes }
        ELSE IF model = "spapr"
        THEN { fail("set_container", e) : e \in IoctlErrnos }
             \cup { fail("set_iommu", e) : e \in IoctlErrnos }
             \cup { fail("enable", e) : e \in IoctlErrnos }
             \cup { fail("tce_get_info", e) : e \in IoctlErrnos }
             \cup UNION { connect_listener(G, gid, as, cid,
                                           SpaprContainer(as, cid, w[1], w[2])) :
                          w \in SpaprWindows }
        ELSE { connect_exit(G, as, "free_container_exit", cid, c0, -EINVAL,
                            "no_model") }

\* lines 771-876: no container of the entry took the group
connect_new(G, gid, as) ==
    LET cid == CHOOSE c \in Cids :
                  /\ G.containers[c] = NoContainer
                  /\ \A d \in Cids : G.containers[d] = NoContainer => c <= d
        G1 == [G EXCEPT !.fds = @ \cup { ContainerFd(cid) }]
    IN  { connect_exit(G, as, "put_space_exit", 0, NoContainer, -e, "open") :
          e \in OpenErrnos }
        \cup { connect_exit(G1, as, "close_fd_exit", cid, NoContainer,
                            -EINVAL, "version") }
        \cup UNION { connect_model(G1, gid, as, cid, model) :
                     model \in IommuModels }

vfio_connect_container(G, gid, as) ==
    LET G1 == [G EXCEPT !.spaces = vfio_get_address_space(@, as)]
    IN  connect_reuse(G1, gid, as) \cup connect_new(G1, gid, as)

\* variant: the container is torn down although groups remain bound
vfio_disconnect_container_eager(G, gid) ==
    LET cid == G.groups[gid].container
        c == G.containers[cid]
        G1 == [G EXCEPT !.containers[cid].group_list = SeqRemove(@, gid),
                        !.groups[gid].container = 0]
        i == SpacePos(G1.spaces, c.space)
        G2 == [G1 EXCEPT !.spaces[i].containers = SeqRemove(@, cid),
                         !.fds = @ \ { ContainerFd(cid) },
                         !.containers[cid] = NoContainer]
    IN  [G2 EXCEPT !.spaces = vfio_put_address_space(@, c.space)]

\* vfio_disconnect_container(group)
vfio_disconnect_container(G, gid) ==
    LET cid == G.groups[gid].container
        c == G.containers[cid]
        left == SeqRemove(c.group_list, gid)
        G1 == [G EXCEPT !.containers[cid].group_list = left,
                        !.groups[gid].container = 0]
    IN  IF left = << >>
        THEN LET i == SpacePos(G1.spaces, c.space)
                 G2 == [G1 EXCEPT
                          !.spaces[i].containers = SeqRemove(@, cid),
                          !.fds = @ \ { ContainerFd(cid) },
                          !.containers[cid] = NoContainer]
             IN  [G2 EXCEPT !.spaces = vfio_put_address_space(@, c.space)]
        ELSE G1

GroupResult(G, ret, step, conn, ab) ==
    [G |-> G, ret |-> ret, step |-> step, reused |-> conn.reused,
     created |-> conn.created, connret |-> conn.ret,
     cfinal |-> [initialized |-> conn.cfinal.initialized,
                 listener |-> conn.cfinal.listener,
                 error |-> conn.cfinal.error],
     aborted |-> ab]

NoConnect == ConnectResult(<< >>, 0, "none", 0, 0, NoContainer, FALSE)

\* variant: the reset handler is registered for every group
get_group_connected_always_registers(gid, r) ==
    IF r.aborted
    THEN GroupResult(r.G, 0, r.step, r, TRUE)
    ELSE IF r.ret # 0
    THEN GroupResult([r.G EXCEPT !.fds = @ \ { GroupFd(gid) },
                                 !.groups[gid] = NoGroup],
                     0, r.step, r, FALSE)
    ELSE GroupResult([r.G EXCEPT !.reset = @ + 1,
                                 !.group_list = << gid >> \o @],
                     gid, "ok", r, FALSE)

\* lines 988-1009 of vfio_get_group: after vfio_connect_container ran as r
get_group_connected(gid, r) ==
    IF r.aborted
    THEN GroupResult(r.G, 0, r.step, r, TRUE)
    ELSE IF r.ret # 0
    THEN GroupResult([r.G EXCEPT !.fds = @ \ { GroupFd(gid) },
                                 !.groups[gid] = NoGroup],
                     0, r.step, r, FALSE)
    ELSE GroupResult([r.G EXCEPT
                         !.reset = IF r.G.group_list = << >>
                                   THEN @ + 1 ELSE @,
                         !.group_list = << gid >> \o @],
                     gid, "ok", r, FALSE)

\* lines 962-986 of vfio_get_group: the group is allocated, its descriptor
\* is open and the host reports it viable
get_group_opened(G, gid) ==
    [G EXCEPT !.fds = @ \cup { GroupFd(gid) },
              !.groups[gid] = [NoGroup EXCEPT !.fd = gid, !.groupid = gid]]

\* variant: a group that is found is returned whatever its address space
vfio_get_group_any_space(G, gid, as) ==
    IF InSeq(G.group_list, gid)
    THEN { GroupResult(G, gid, "found", NoConnect, FALSE) }
    ELSE { GroupResult(G, 0, "open_group", NoConnect, FALSE),
           GroupResult(G, 0, "get_status", NoConnect, FALSE),
           GroupResult(G, 0, "not_viable", NoConnect, FALSE) }
         \cup { get_group_connected(gid, r) :
                r \in vfio_connect_container(get_group_opened(G, gid),
                                             gid, as) }

\* vfio_get_group(groupid, as); ret is the group returned, 0 for NULL
vfio_get_group(G, gid, as) ==
    IF InSeq(G.group_list, gid)
    THEN IF G.containers[G.groups[gid].container].space = as
         THEN { GroupResult(G, gid, "found", NoConnect, FALSE) }
         ELSE { GroupResult(G, 0, "other_as", NoConnect, FALSE) }
    ELSE { GroupResult(G, 0, "open_group", NoConnect, FALSE),
           GroupResult(G, 0, "get_status", NoConnect, FALSE),
           GroupResult(G, 0, "not_viable", NoConnect, FALSE) }
         \cup { get_group_connected(gid, r) :
                r \in vfio_connect_container(get_group_opened(G, gid),
                                             gid, as) }

\* variant: the group is destroyed although it still has devices
vfio_put_group_with_devices(G, gid) ==
    LET G1 == vfio_disconnect_container(G, gid)
    IN  [G1 EXCEPT !.group_list = SeqRemove(@, gid),
                   !.fds = @ \ { GroupFd(gid) },
                   !.groups[gid] = NoGroup]

\* vfio_put_group(group)
vfio_put_group(G, gid) ==
    IF G.groups[gid].device_list # << >>
    THEN G
    ELSE LET G1 == vfio_disconnect_container(G, gid)
             G2 == [G1 EXCEPT !.group_list = SeqRemove(@, gid),
                              !.fds = @ \ { GroupFd(gid) },
                              !.groups[gid] = NoGroup]
         IN  [G2 EXCEPT !.reset = IF G2.group_list = << >>
                                  THEN @ - 1 ELSE @]

\* vfio_get_device(group, name, vbasedev): the runs of the call; a failing
\* ioctl's own return value, -1, is what the call returns (lines 1042, 1049)
vfio_get_device(G, gid, dev) ==
    { [G |-> G, ret |-> -1] }
    \cup { [G |-> [G EXCEPT !.fds = @ \cup { DeviceFd(dev) },
                            !.devices[dev].group = gid,
                            !.groups[gid].device_list = << dev >> \o @],
            ret |-> 0] }

\* vfio_put_base_device(vbasedev)
vfio_put_base_device(G, dev) ==
    IF G.devices[dev].group = 0
    THEN G
    ELSE [G EXCEPT !.groups[G.devices[dev].group].device_list =
                        SeqRemove(@, dev),
                   !.devices[dev].group = 0,
                   !.fds = @ \ { DeviceFd(dev) }]

---------------------------------------------------------------------------
(* EEH *)

\* variant: any container that has a group passes
vfio_eeh_container_ok_nonempty(c) == c.group_list # << >>

vfio_eeh_container_ok(c) ==
    IF c.group_list = << >> THEN FALSE
    ELSE IF Len(c.group_list) > 1 THEN FALSE
    ELSE TRUE

\* vfio_eeh_container_op(container, op): return value and the number of
\* VFIO_EEH_PE_OP requests issued
vfio_eeh_container_op(c) ==
    IF ~vfio_eeh_container_ok(c)
    THEN { [ret |-> -EPERM, calls |-> 0, err |-> 0] }
    ELSE { [ret |-> 0, calls |-> 1, err |-> 0] }      \* ioctl() >= 0
         \cup { [ret |-> -e, calls |-> 1, err |-> e] : e \in IoctlErrnos }

\* variant: the entry looked up is not put back
vfio_eeh_as_container_no_put(G, as) ==
    LET sp1 == vfio_get_address_space(G.spaces, as)
        space == SpaceOf(sp1, as)
    IN  [G |-> [G EXCEPT !.spaces = sp1],
         container |-> IF Len(space.containers) = 1
                       THEN space.containers[1] ELSE 0]

\* vfio_eeh_as_container(as): the registry afterwards and the container
\* found (0 for NULL)
vfio_eeh_as_container(G, as) ==
    LET sp1 == vfio_get_address_space(G.spaces, as)
        space == SpaceOf(sp1, as)
        container == IF space.containers = << >> THEN 0
                     ELSE IF Len(space.containers) > 1 THEN 0
                     ELSE space.containers[1]
    IN  [G |-> [G EXCEPT !.spaces = vfio_put_address_space(sp1, as)],
         container |-> container]

\* vfio_eeh_as_ok(as)
vfio_eeh_as_ok(G, as) ==
    LET r == vfio_eeh_as_container(G, as)
    IN  [G |-> r.G,
         ret |-> r.container # 0
                   /\ vfio_eeh_container_ok(r.G.containers[r.container])]

\* vfio_eeh_as_op(as, op)
vfio_eeh_as_op(G, as) ==
    LET r == vfio_eeh_as_container(G, as)
    IN  IF r.container = 0
        THEN { [G |-> r.G, ret |-> -ENODEV, calls |-> 0, err |-> 0] }
        ELSE { [G |-> r.G, ret |-> o.ret, calls |-> o.calls, err |-> o.err] :
               o \in vfio_eeh_container_op(r.G.containers[r.container]) }

---------------------------------------------------------------------------
(* Group, device and EEH entry points *)

LifeState ==
    [spaces |-> vfio_address_spaces, containers |-> containers,
     groups |-> groups, group_list |-> vfio_group_list,
     devices |-> devices, fds |-> open_fds, stale |-> stale_notifiers,
     reset |-> reset_registered]

SetLife(G) ==
    /\ vfio_address_spaces' = G.spaces
    /\ containers' = G.containers
    /\ groups' = G.groups
    /\ vfio_group_list' = G.group_list
    /\ devices' = G.devices
    /\ open_fds' = G.fds
    /\ stale_notifiers' = G.stale
    /\ reset_registered' = G.reset

\* what vfio_get_group saw of the vfio_connect_container it called
ConnInfo(r) ==
    [ret |-> r.connret, reused |-> r.reused, created |-> r.created,
     cfinal |-> r.cfinal]

NoConnInfo ==
    [ret |-> 0, reused |-> 0, created |-> 0,
     cfinal |-> [initialized |-> FALSE, listener |-> FALSE, error |-> 0]]

\* What the last entry point was, the step it ended at, its return value,
\* the number of host EEH requests it issued and the connect it ran
LifeHist(op, step, ret, calls, conn) ==
    [op |-> op, step |-> step, ret |-> ret, calls |-> calls, conn |-> conn]

LifeInit ==
    /\ vfio_address_spaces = << >>
    /\ vfio_group_list = << >>
    /\ containers = [c \in Cids |-> NoContainer]
    /\ groups = [g \in Gids |-> NoGroup]
    /\ devices = [d \in Devs |-> NoDevice]
    /\ reset_registered = 0
    /\ open_fds = {}
    /\ stale_notifiers = {}
    /\ lcont = NoContainer
    /\ added = {}
    /\ RegionIdle
    /\ aborted = FALSE
    /\ hist = LifeHist("init", "none", 0, 0, NoConnInfo)

OtherVars == << lcont, added, region >>

\* Group ids and devices are only compared for equality, so a new one is
\* always the least unused one.
FreshGid(gid) ==
    /\ ~InSeq(vfio_group_list, gid)
    /\ \A g \in Gids : ~InSeq(vfio_group_list, g) => gid <= g

FreshDev(dev) ==
    /\ devices[dev].group = 0
    /\ \A d \in Devs : devices[d].group = 0 => dev <= d

GetGroup(gid, as) ==
    /\ ~aborted
    /\ InSeq(vfio_group_list, gid) \/ FreshGid(gid)
    /\ \E r \in vfio_get_group(LifeState, gid, as) :
          /\ SetLife(r.G)
          /\ aborted' = r.aborted
          /\ hist' = LifeHist("get_group", r.step, r.ret, 0, ConnInfo(r))
    /\ UNCHANGED OtherVars

\* what a vfio_put_group that turned G into H destroyed
PutGroupStep(G, H, gid) ==
    IF H.group_list = G.group_list THEN "none"
    ELSE IF H.containers = [G.containers EXCEPT
                              ![G.groups[gid].container].group_list =
                                  SeqRemove(@, gid)]
    THEN "group"
    ELSE IF Len(H.spaces) = Len(G.spaces) THEN "container"
    ELSE "space"

PutGroup(gid) ==
    /\ ~aborted
    /\ InSeq(vfio_group_list, gid)
    /\ SetLife(vfio_put_group(LifeState, gid))
    /\ hist' = LifeHist("put_group",
                        PutGroupStep(LifeState,
                                     vfio_put_group(LifeState, gid), gid),
                        0, 0, NoConnInfo)
    /\ UNCHANGED << OtherVars, aborted >>

GetDevice(gid, dev) ==
    /\ ~aborted
    /\ InSeq(vfio_group_list, gid)
    /\ FreshDev(dev)
    /\ \E r \in vfio_get_device(LifeState, gid, dev) :
          /\ SetLife(r.G)
          /\ hist' = LifeHist("get_device", "none", r.ret, 0, NoConnInfo)
    /\ UNCHANGED << OtherVars, aborted >>

PutBaseDevice(dev) ==
    /\ ~aborted
    /\ SetLife(vfio_put_base_device(LifeState, dev))
    /\ hist' = LifeHist("put_base_device",
                        IF devices[dev].group = 0 THEN "none"
                        ELSE IF Len(groups[devices[dev].group].device_list) = 1
                        THEN "last" ELSE "more", 0, 0, NoConnInfo)
    /\ UNCHANGED << OtherVars, aborted >>

EehAsOp(as) ==
    /\ ~aborted
    /\ \E r \in vfio_eeh_as_op(LifeState, as) :
          /\ SetLife(r.G)
          /\ hist' = LifeHist("eeh_as_op", "none", r.ret, r.calls, NoConnInfo)
    /\ UNCHANGED << OtherVars, aborted >>

EehAsOk(as) ==
    /\ ~aborted
    /\ LET r == vfio_eeh_as_ok(LifeState, as)
       IN  /\ SetLife(r.G)
           /\ hist' = LifeHist("eeh_as_ok", "none", IF r.ret THEN 1 ELSE 0, 0,
                            NoConnInfo)
    /\ UNCHANGED << OtherVars, aborted >>

LifeNext ==
    \/ \E gid \in Gids, as \in ASes : GetGroup(gid, as)
    \/ \E gid \in Gids : PutGroup(gid)
    \/ \E gid \in Gids, dev \in Devs : GetDevice(gid, dev)
    \/ \E dev \in Devs : PutBaseDevice(dev)
    \/ \E as \in ASes : EehAsOp(as)
    \/ \E as \in ASes : EehAsOk(as)

SpecLife == LifeInit /\ [][LifeNext]_vars

---------------------------------------------------------------------------
(* Global reset *)

\* every device of every group of vfio_group_list, in the order of the two
\* nested QLIST_FOREACH loops
RECURSIVE DeviceOrder(_, _)
DeviceOrder(G, glist) ==
    IF glist = << >> THEN << >>
    ELSE G.groups[Head(glist)].device_list \o DeviceOrder(G, Tail(glist))

\* vbasedev->ops->vfio_compute_needs_reset(vbasedev): the device model
\* answers whether the device needs a reset and records the answer
vfio_compute_needs_reset(G, dev, answer) ==
    [G EXCEPT !.devices[dev].needs_reset = answer]

\* vbasedev->ops->vfio_hot_reset_multi(vbasedev): the device model resets
\* the device; nothing the handler reads is changed
vfio_hot_reset_multi(G, dev) == G

\* first loop of vfio_reset_handler over the devices in order
RECURSIVE reset_query(_, _, _)
reset_query(G, order, log) ==
    IF order = << >>
    THEN { [G |-> G, log |-> log] }
    ELSE UNION { reset_query(
                     vfio_compute_needs_reset(G, Head(order), answer),
                     Tail(order),
                     Append(log, << "compute_needs_reset", Head(order) >>)) :
                 answer \in BOOLEAN }

\* second loop of vfio_reset_handler over the devices in order
RECURSIVE reset_hot(_, _, _)
reset_hot(G, order, log) ==
    IF order = << >>
    THEN [G |-> G, log |-> log]
    ELSE IF G.devices[Head(order)].needs_reset
    THEN reset_hot(vfio_hot_reset_multi(G, Head(order)), Tail(order),
                   Append(log, << "hot_reset_multi", Head(order) >>))
    ELSE reset_hot(G, Tail(order), log)

\* variant: one loop that queries a device and resets it at once
RECURSIVE reset_single_pass(_, _, _)
reset_single_pass(G, order, log) ==
    IF order = << >>
    THEN { [G |-> G, log |-> log, flagged |-> {}] }
    ELSE UNION {
           LET H == vfio_compute_needs_reset(G, Head(order), answer)
               l == Append(log, << "compute_needs_reset", Head(order) >>)
           IN  IF answer
               THEN { [r EXCEPT !.flagged = @ \cup { Head(order) }] :
                      r \in reset_single_pass(
                                vfio_hot_reset_multi(H, Head(order)),
                                Tail(order),
                                Append(l, << "hot_reset_multi",
                                             Head(order) >>)) }
               ELSE reset_single_pass(H, Tail(order), l) :
           answer \in BOOLEAN }

vfio_reset_handler_single_pass(G) ==
    reset_single_pass(G, DeviceOrder(G, G.group_list), << >>)

\* vfio_reset_handler(opaque): the runs of the handler, each with the calls
\* it made in order and the devices whose needs_reset was set when the first
\* loop ended
vfio_reset_handler(G) ==
    { LET order == DeviceOrder(q.G, q.G.group_list)
          h == reset_hot(q.G, order, q.log)
      IN  [G |-> h.G, log |-> h.log,
           flagged |-> { d \in DOMAIN q.G.devices :
                            /\ InSeq(order, d)
                            /\ q.G.devices[d].needs_reset }] :
      q \in reset_query(G, DeviceOrder(G, G.group_list), << >>) }

\* qemu_devices_reset() calls the handler vfio_get_group registered
ResetHandler ==
    /\ ~aborted
    /\ reset_registered > 0
    /\ \E r \in vfio_reset_handler(LifeState) :
          /\ SetLife(r.G)
          /\ hist' = [op |-> "reset", log |-> r.log, flagged |-> r.flagged,
                      order |-> DeviceOrder(LifeState, vfio_group_list)]
    /\ UNCHANGED << OtherVars, aborted >>

\* groups, devices and resets in one address space
ResetNext ==
    \/ \E gid \in Gids : GetGroup(gid, "as0")
    \/ \E gid \in Gids : PutGroup(gid)
    \/ \E gid \in Gids, dev \in Devs : GetDevice(gid, dev)
    \/ \E dev \in Devs : PutBaseDevice(dev)
    \/ ResetHandler

SpecReset == LifeInit /\ [][ResetNext]_vars

---------------------------------------------------------------------------
(* The DMA map engine called on its own *)

DmaIovas == { 0, P, 2 * P }
DmaSizes == { P, 2 * P }

\* vfio_dma_map(container, iova, size, vaddr, readonly)
DmaMap(iova, size, readonly) ==
    /\ \E m \in vfio_dma_map(lcont.dma, iova, size,
                              memory_region_get_ram_ptr("ram0") + iova,
                              readonly) :
          /\ lcont' = [lcont EXCEPT !.dma = m.dma]
          /\ hist' = [op |-> "dma_map", iova |-> iova, size |-> size,
                      readonly |-> readonly, ret |-> m.ret,
                      reqs |-> m.reqs, predma |-> lcont.dma]
    /\ UNCHANGED << LifeVars, region, added, aborted >>

\* vfio_dma_unmap(container, iova, size)
DmaUnmap(iova, size) ==
    /\ \E u \in vfio_dma_unmap(lcont.dma, iova, size) :
          /\ lcont' = [lcont EXCEPT !.dma = u.dma]
          /\ hist' = [op |-> "dma_unmap", iova |-> iova, size |-> size,
                      readonly |-> FALSE, ret |-> u.ret,
                      reqs |-> u.reqs, predma |-> lcont.dma]
    /\ UNCHANGED << LifeVars, region, added, aborted >>

DmaNext ==
    \/ \E iova \in DmaIovas, size \in DmaSizes, ro \in BOOLEAN :
          DmaMap(iova, size, ro)
    \/ \E iova \in DmaIovas, size \in DmaSizes : DmaUnmap(iova, size)

SpecDma == ListenerInit /\ [][DmaNext]_vars

---------------------------------------------------------------------------
(* Region mmap windows *)

\* region->mmaps[i] before it is mapped (g_new0): offset and size of the
\* window, mmap NULL (0), its MemoryRegion neither attached nor enabled
VFIOMmap(i) ==
    [offset |-> (i - 1) * TARGET_PAGE_SIZE, size |-> TARGET_PAGE_SIZE,
     mmap |-> 0, attached |-> FALSE, enabled |-> FALSE]

\* errno values of a failing mmap()
MmapErrnos == { ENOMEM, ENODEV, EINVAL }

\* a request to the host or the memory core about window i (counted from 0
\* as in the code)
RegionReq(req, i, e) == [req |-> req, window |-> i - 1, err |-> e]

RegionRun(rg, ret, failed, reqs, ab) ==
    [region |-> rg, ret |-> ret, failed |-> failed, reqs |-> reqs,
     aborted |-> ab]

\* lines 566-571: the loop for (i--; i >= 0; i--) undoing windows i .. 1
RECURSIVE region_mmap_undo(_, _, _)
region_mmap_undo(rg, i, reqs) ==
    IF i < 1
    THEN [region |-> rg, reqs |-> reqs]
    ELSE region_mmap_undo(
            [rg EXCEPT !.mmaps[i].attached = FALSE,
                       !.mmaps[i].enabled = FALSE,
                       !.mmaps[i].mmap = 0,
                       !.host = @ \ { i }],
            i - 1,
            reqs \o << RegionReq("del_subregion", i, 0),
                       RegionReq("munmap", i, 0) >>)

\* variant: the windows mapped before the failing one are left mapped
region_mmap_fail_no_rollback(rg, i, reqs, e) ==
    RegionRun([rg EXCEPT !.mmaps[i].mmap = 0], -e, i - 1,
              reqs \o << RegionReq("mmap", i, e) >>, FALSE)

\* variant: the undo loop stops before the first window
region_mmap_fail_keep_first(rg, i, reqs, e) ==
    LET u == region_mmap_undo([rg EXCEPT !.mmaps[i].mmap = 0], i - 1,
                              reqs \o << RegionReq("mmap", i, e) >>)
    IN  RegionRun(
            IF i > 1
            THEN [u.region EXCEPT !.mmaps[1] = rg.mmaps[1],
                                  !.host = @ \cup { 1 }]
            ELSE u.region,
            -e, i - 1,
            IF i > 1 THEN SubSeq(u.reqs, 1, Len(u.reqs) - 2) ELSE u.reqs,
            FALSE)

\* variant: the pointer of the failing window is left at MAP_FAILED (-1)
region_mmap_fail_keep_pointer(rg, i, reqs, e) ==
    LET u == region_mmap_undo([rg EXCEPT !.mmaps[i].mmap = -1], i - 1,
                              reqs \o << RegionReq("mmap", i, e) >>)
    IN  RegionRun(u.region, -e, i - 1, u.reqs, FALSE)

\* lines 554-574: mmap() of window i failed with errno e
region_mmap_fail(rg, i, reqs, e) ==
    LET u == region_mmap_undo([rg EXCEPT !.mmaps[i].mmap = 0], i - 1,
                              reqs \o << RegionReq("mmap", i, e) >>)
    IN  RegionRun(u.region, -e, i - 1, u.reqs, FALSE)

\* lines 549-591: the loop of vfio_region_mmap from window i on
RECURSIVE region_mmap_from(_, _, _)
region_mmap_from(rg, i, reqs) ==
    IF i > rg.nr_mmaps
    THEN { RegionRun(rg, 0, rg.nr_mmaps, reqs, FALSE) }
    ELSE { region_mmap_fail(rg, i, reqs, e) : e \in MmapErrnos }
         \cup region_mmap_from(
                  [rg EXCEPT !.mmaps[i].mmap = i,
                             !.mmaps[i].attached = TRUE,
                             !.mmaps[i].enabled = TRUE,
                             !.host = @ \cup { i }],
                  i + 1,
                  reqs \o << RegionReq("mmap", i, 0),
                             RegionReq("add_subregion", i, 0) >>)

\* vfio_region_mmap(region): the runs of the call; failed is the window
\* whose mmap() failed, nr_mmaps if none did
vfio_region_mmap(rg) ==
    IF ~rg.mem
    THEN { RegionRun(rg, 0, rg.nr_mmaps, << >>, FALSE) }
    ELSE region_mmap_from(rg, 1, << >>)

\* vfio_region_exit(region); memory_region_del_subregion asserts that the
\* window is a subregion of region->mem
RECURSIVE region_exit_from(_, _, _)
region_exit_from(rg, i, reqs) ==
    IF i > rg.nr_mmaps
    THEN RegionRun(rg, 0, rg.nr_mmaps, reqs, FALSE)
    ELSE IF rg.mmaps[i].mmap = 0
    THEN region_exit_from(rg, i + 1, reqs)
    ELSE IF ~rg.mmaps[i].attached
    THEN RegionRun(rg, 0, rg.nr_mmaps,
                   reqs \o << RegionReq("del_subregion", i, 0) >>, TRUE)
    ELSE region_exit_from([rg EXCEPT !.mmaps[i].attached = FALSE], i + 1,
                          reqs \o << RegionReq("del_subregion", i, 0) >>)

vfio_region_exit(rg) ==
    IF ~rg.mem
    THEN RegionRun(rg, 0, rg.nr_mmaps, << >>, FALSE)
    ELSE region_exit_from(rg, 1, << >>)

\* vfio_region_finalize(region)
RECURSIVE region_finalize_from(_, _, _)
region_finalize_from(rg, i, reqs) ==
    IF i > rg.nr_mmaps
    THEN RegionRun([rg EXCEPT !.freed = TRUE], 0, rg.nr_mmaps, reqs, FALSE)
    ELSE IF rg.mmaps[i].mmap = 0
    THEN region_finalize_from(rg, i + 1, reqs)
    ELSE region_finalize_from([rg EXCEPT !.host = @ \ { i }], i + 1,
                              reqs \o << RegionReq("munmap", i, 0) >>)

vfio_region_finalize(rg) ==
    IF ~rg.mem
    THEN RegionRun(rg, 0, rg.nr_mmaps, << >>, FALSE)
    ELSE region_finalize_from(rg, 1, << >>)

\* vfio_region_mmaps_set_enabled(region, enabled)
vfio_region_mmaps_set_enabled(rg, enabled) ==
    IF ~rg.mem
    THEN rg
    ELSE [rg EXCEPT !.mmaps =
             [i \in 1 .. rg.nr_mmaps |->
                 IF rg.mmaps[i].mmap # 0
                 THEN [rg.mmaps[i] EXCEPT !.enabled = enabled]
                 ELSE rg.mmaps[i]]]

\* the regions vfio_region_setup and the device's window layout hand to
\* the helpers: no MemoryRegion for an empty region, else n windows
RegionFlags == { { "READ", "MMAP" }, { "READ", "WRITE", "MMAP" } }

\* info->offset of the region in the device descriptor
RegionFdOffset == MaxMmaps * TARGET_PAGE_SIZE

SetupRegions ==
    { NoRegion }
    \cup { [NoRegion EXCEPT !.mem = TRUE, !.flags = f, !.nr_mmaps = n,
                            !.fd_offset = RegionFdOffset,
                            !.mmaps = [i \in 1 .. n |-> VFIOMmap(i)]] :
           n \in 0 .. MaxMmaps, f \in RegionFlags }

\* the bytes of the low size bytes of v, least significant first
\* (cpu_to_le16, cpu_to_le32, or the plain byte)
RECURSIVE LEBytes(_, _)
LEBytes(v, size) ==
    IF size = 0 THEN << >>
    ELSE << v % 256 >> \o LEBytes(v \div 256, size - 1)

\* the value of bytes stored least significant first (le16_to_cpu,
\* le32_to_cpu, or the plain byte)
RECURSIVE FromLE(_)
FromLE(bytes) ==
    IF bytes = << >> THEN 0
    ELSE Head(bytes) + 256 * FromLE(Tail(bytes))

\* what pread()/pwrite() of size bytes may return: all of them, fewer, or
\* the error value
PioResults(size) == { size, size - 1, -1 }

\* bytes the device may hold at an offset
DeviceBytes(size) ==
    { [i \in 1 .. size |-> i], [i \in 1 .. size |-> 127] }

AccessSizes == { 1, 2, 4 }

\* a run of a trapped access: its value, the calls of vbasedev->ops->vfio_eoi
\* and the positioned accesses to the device descriptor
AccessRun(ret, eoi, reqs, ab) ==
    [ret |-> ret, eoi |-> eoi, reqs |-> reqs, aborted |-> ab]

PioReq(req, offset, size, bytes, done) ==
    [req |-> req, offset |-> offset, size |-> size, bytes |-> bytes,
     done |-> done]

\* vfio_region_write(region, addr, data, size)
vfio_region_write(rg, addr, data, size) ==
    IF size \notin AccessSizes
    THEN { AccessRun(0, 0, << >>, TRUE) }             \* hw_error
    ELSE { AccessRun(0, 1,
                     << PioReq("pwrite", rg.fd_offset + addr, size,
                               LEBytes(data, size), n) >>, FALSE) :
           n \in PioResults(size) }

\* vfio_region_read(region, addr, size); (uint64_t)-1 is written -1
vfio_region_read(rg, addr, size) ==
    { AccessRun(-1, 0,
                << PioReq("pread", rg.fd_offset + addr, size, << >>, n) >>,
                FALSE) :
      n \in PioResults(size) \ { size } }
    \cup { IF size \notin AccessSizes
           THEN AccessRun(0, 0,
                          << PioReq("pread", rg.fd_offset + addr, size, b,
                                    size) >>, TRUE)    \* hw_error
           ELSE AccessRun(FromLE(b), 1,
                          << PioReq("pread", rg.fd_offset + addr, size, b,
                                    size) >>, FALSE) :
           b \in DeviceBytes(size) }

RegionHist(op, r) ==
    [op |-> op, ret |-> r.ret, failed |-> r.failed, reqs |-> r.reqs,
     eoi |-> 0]

AccessHist(op, r) ==
    [op |-> op, ret |-> r.ret, failed |-> 0, reqs |-> r.reqs, eoi |-> r.eoi]

RegionInit ==
    /\ LifeIdle
    /\ lcont = NoContainer
    /\ added = {}
    /\ region \in SetupRegions
    /\ aborted = FALSE
    /\ hist = [op |-> "init", ret |-> 0, failed |-> 0, reqs |-> << >>,
               eoi |-> 0]

\* the device maps the windows of a region none of whose windows is mapped
RegionMmap ==
    /\ ~aborted /\ ~region.freed
    /\ \A i \in 1 .. region.nr_mmaps : region.mmaps[i].mmap = 0
    /\ \E r \in vfio_region_mmap(region) :
          /\ region' = r.region
          /\ hist' = RegionHist("region_mmap", r)
    /\ UNCHANGED << LifeVars, lcont, added, aborted >>

RegionSetEnabled(enabled) ==
    /\ ~aborted /\ ~region.freed
    /\ region' = vfio_region_mmaps_set_enabled(region, enabled)
    /\ hist' = [op |-> "set_enabled", ret |-> 0,
                failed |-> region.nr_mmaps, reqs |-> << >>, eoi |-> 0]
    /\ UNCHANGED << LifeVars, lcont, added, aborted >>

RegionExit ==
    /\ ~aborted /\ ~region.freed
    /\ LET r == vfio_region_exit(region)
       IN  /\ region' = r.region
           /\ aborted' = r.aborted
           /\ hist' = RegionHist("region_exit", r)
    /\ UNCHANGED << LifeVars, lcont, added >>

\* the device finalizes a region whose windows vfio_region_exit detached
RegionFinalize ==
    /\ ~aborted /\ ~region.freed
    /\ \A i \in 1 .. region.nr_mmaps : ~region.mmaps[i].attached
    /\ LET r == vfio_region_finalize(region)
       IN  /\ region' = r.region
           /\ hist' = RegionHist("region_finalize", r)
    /\ UNCHANGED << LifeVars, lcont, added, aborted >>

AccessAddrs == { 0, TARGET_PAGE_SIZE }
AccessData == { 513, 197121 }

\* the guest writes to the region: vfio_region_ops.write
RegionWrite(addr, data, size) ==
    /\ ~aborted /\ region.mem /\ ~region.freed
    /\ \E r \in vfio_region_write(region, addr, data, size) :
          /\ aborted' = r.aborted
          /\ hist' = AccessHist("region_write", r)
    /\ UNCHANGED << LifeVars, lcont, added, region >>

\* the guest reads from the region: vfio_region_ops.read
RegionRead(addr, size) ==
    /\ ~aborted /\ region.mem /\ ~region.freed
    /\ \E r \in vfio_region_read(region, addr, size) :
          /\ aborted' = r.aborted
          /\ hist' = AccessHist("region_read", r)
    /\ UNCHANGED << LifeVars, lcont, added, region >>

RegionNext ==
    \/ \E addr \in AccessAddrs, data \in AccessData, size \in AccessSizes :
          RegionWrite(addr, data, size)
    \/ \E addr \in AccessAddrs, size \in AccessSizes : RegionRead(addr, size)
    \/ RegionMmap
    \/ \E enabled \in BOOLEAN : RegionSetEnabled(enabled)
    \/ RegionExit
    \/ RegionFinalize

SpecRegion == RegionInit /\ [][RegionNext]_vars

---------------------------------------------------------------------------
(* Claims about the memory listener and the DMA map engine *)

\* the pages of the page-aligned interval region_add computes for a section
SectionPages(sec) ==
    LET iova == TARGET_PAGE_ALIGN(sec.offset_within_address_space)
        llend == PageFloor(sec.offset_within_address_space + sec.size)
    IN  IF iova >= llend THEN {} ELSE PagesOf(iova, llend - iova)

SameRange(a, b) == a.iova = b.iova /\ a.size = b.size

BusyThenFailedUnmap(h) ==
    /\ h.op = "dma_map"
    /\ Len(h.reqs) >= 2
    /\ h.reqs[1].req = "map" /\ h.reqs[1].err = EBUSY
    /\ h.reqs[2].req = "unmap" /\ h.reqs[2].err # 0

C9_UnalignedAddNoEffect ==
    [][ (/\ hist'.op = "region_add"
         /\ ~vfio_listener_skipped_section(hist'.section)
         /\ Unaligned(hist'.section))
        => (lcont' = lcont /\ hist'.reqs = << >> /\ aborted' = aborted) ]_vars

\* C9 witness: an unaligned section was added while mappings existed
C9_Witness ==
    /\ hist.op = "region_add"
    /\ ~vfio_listener_skipped_section(hist.section)
    /\ Unaligned(hist.section)
    /\ hist.predma # {}
    /\ lcont.dma = hist.predma

---------------------------------------------------------------------------
(* Claims about containers, groups, devices and EEH *)

\* the containers some entry of the registry holds
Registered(spaces) ==
    UNION { { spaces[i].containers[k] : k \in 1 .. Len(spaces[i].containers) } :
            i \in 1 .. Len(spaces) }

\* the groups bound to container cid
GroupsOf(cid) == { g \in Gids : groups[g].container = cid }

\* C2: from every reachable state, when a new group connects and the host
\* accepts it in a container of the address space's entry, the group is
\* bound to that container next to the groups already there and the entry
\* holds the containers it held; a group the host binds to no existing
\* container gets a new container of its own, in the entry of its own
\* address space only, and every other container is left as it was.
C2_SharedContainer ==
    \A gid \in Gids, as \in ASes :
       (~aborted /\ FreshGid(gid)) =>
          \A r \in vfio_get_group(LifeState, gid, as) :
             r.step = "ok" =>
                LET i == SpaceIndex(vfio_address_spaces, as)
                    j == SpaceIndex(r.G.spaces, as)
                    cid == r.G.groups[gid].container
                IN  /\ r.ret = gid
                    /\ cid # 0 /\ j # 0
                    /\ r.G.containers[cid].space = as
                    /\ InSeq(r.G.spaces[j].containers, cid)
                    /\ \A k \in 1 .. Len(r.G.spaces) :
                          k # j => ~InSeq(r.G.spaces[k].containers, cid)
                    /\ r.reused # 0 =>
                          /\ cid = r.reused
                          /\ i # 0
                          /\ InSeq(vfio_address_spaces[i].containers, cid)
                          /\ r.G.spaces = vfio_address_spaces
                          /\ r.G.containers =
                                [containers EXCEPT
                                    ![cid].group_list = << gid >> \o @]
                          /\ \A g \in Gids :
                                InSeq(r.G.containers[cid].group_list, g)
                                    <=> r.G.groups[g].container = cid
                    /\ r.reused = 0 =>
                          /\ cid = r.created
                          /\ containers[cid] = NoContainer
                          /\ r.G.containers[cid].group_list = << gid >>
                          /\ \A c \in Cids \ { cid } :
                                r.G.containers[c] = containers[c]
                          /\ \A g \in Gids \ { gid } :
                                r.G.groups[g] = groups[g]
                          /\ i = 0 => r.G.spaces[j].containers = << cid >>
                          /\ Registered(r.G.spaces)
                                = Registered(vfio_address_spaces) \cup { cid }

\* C2 witness: the second group was accepted in the first group's container;
\* both are bound to it and the entry holds that one container
C2_Witness ==
    /\ hist.op = "get_group" /\ hist.step = "ok"
    /\ hist.conn.reused # 0
    /\ Len(vfio_group_list) = 2
    /\ GroupsOf(hist.conn.reused) = { 1, 2 }
    /\ Len(vfio_address_spaces) = 1
    /\ vfio_address_spaces[1].containers = << hist.conn.reused >>

\* what vfio_put_group of a group without devices does to the group, its
\* container and the entry of the container's address space
PutGroupEffect(gid) ==
    LET cid == groups[gid].container
        as == containers[cid].space
        i == SpaceIndex(vfio_address_spaces, as)
    IN  /\ ~InSeq(vfio_group_list', gid)
        /\ groups'[gid] = NoGroup
        /\ GroupFd(gid) \notin open_fds'
        /\ \A c \in Cids \ { cid } : containers'[c] = containers[c]
        /\ IF containers[cid].group_list = << gid >>
           THEN /\ containers'[cid] = NoContainer
                /\ ContainerFd(cid) \notin open_fds'
                /\ cid \notin Registered(vfio_address_spaces')
                /\ Registered(vfio_address_spaces')
                      = Registered(vfio_address_spaces) \ { cid }
                /\ IF vfio_address_spaces[i].containers = << cid >>
                   THEN SpaceIndex(vfio_address_spaces', as) = 0
                   ELSE /\ SpaceIndex(vfio_address_spaces', as) # 0
                        /\ Len(vfio_address_spaces') = Len(vfio_address_spaces)
           ELSE /\ containers'[cid] = [containers[cid] EXCEPT
                                         !.group_list = SeqRemove(@, gid)]
                /\ vfio_address_spaces' = vfio_address_spaces

\* C4 as stated: removing the last device of a group destroys the group;
\* removing the last group of a container destroys the container, and its
\* address-space entry when no other container is in it.
C4_LastDeviceDestroysGroup ==
    [][ /\ \A dev \in Devs :
             (PutBaseDevice(dev) /\ hist'.step = "last")
                 => ~InSeq(vfio_group_list', devices[dev].group)
        /\ \A gid \in Gids :
             (PutGroup(gid) /\ groups[gid].device_list = << >>)
                 => PutGroupEffect(gid) ]_vars

\* C4 amended: removing the last device of a group only detaches the device:
\* the group stays registered and bound to its container.  vfio_put_group
\* leaves a group that has devices alone and destroys one that has none;
\* removing the last group of a container destroys the container, and its
\* address-space entry when no other container is in it.
C4_PutGroupDestroys ==
    [][ /\ \A dev \in Devs :
             (PutBaseDevice(dev) /\ devices[dev].group # 0) =>
                 LET gid == devices[dev].group
                 IN  /\ vfio_group_list' = vfio_group_list
                     /\ groups' = [groups EXCEPT
                                     ![gid].device_list = SeqRemove(@, dev)]
                     /\ containers' = containers
                     /\ vfio_address_spaces' = vfio_address_spaces
                     /\ devices'[dev].group = 0
                     /\ open_fds' = open_fds \ { DeviceFd(dev) }
        /\ \A gid \in Gids :
             PutGroup(gid) =>
                 IF groups[gid].device_list # << >>
                 THEN UNCHANGED LifeVars
                 ELSE PutGroupEffect(gid) ]_vars

\* C4 witness: the last group of the only container of an address space was
\* put; group, container and entry are gone and every descriptor is closed
C4_Witness ==
    /\ hist.op = "put_group" /\ hist.step = "space"
    /\ vfio_group_list = << >>
    /\ vfio_address_spaces = << >>
    /\ \A c \in Cids : containers[c] = NoContainer
    /\ open_fds = {}

\* the steps vfio_connect_container can fail at once the entry is resolved
ConnectFailSteps ==
    { "open", "version", "set_container", "set_iommu", "enable",
      "tce_get_info", "no_model", "listener" }

\* the error a failing step of vfio_connect_container captures
CapturedError(r) ==
    IF r.step = "listener" THEN { r.cfinal.error } \ { 0 }
    ELSE IF r.step \in { "version", "no_model" } THEN { -EINVAL }
    ELSE IF r.step = "open" THEN { -e : e \in OpenErrnos }
    ELSE { -e : e \in IoctlErrnos }

\* C5: from every reachable state, a vfio_connect_container that fails
\* after resolving the entry returns with the listener of the container it
\* built not registered, the containers and the entries' container sets as
\* before the call, the container descriptor closed, the group bound to no
\* container and in no group set, no entry with an empty container set, and
\* the captured error as its value.
C5_ConnectFailureRollsBack ==
    \A gid \in Gids, as \in ASes :
       (~aborted /\ FreshGid(gid)) =>
          LET G == get_group_opened(LifeState, gid)
          IN  \A r \in vfio_connect_container(G, gid, as) :
                 (r.ret # 0 \/ r.step # "ok") =>
                    /\ r.step \in ConnectFailSteps
                    /\ ~r.aborted
                    /\ ~r.cfinal.listener
                    /\ ~r.cfinal.initialized
                    /\ r.G.containers = G.containers
                    /\ r.G.spaces = G.spaces
                    /\ r.G.fds = G.fds
                    /\ r.G.groups = G.groups
                    /\ r.G.groups[gid].container = 0
                    /\ \A c \in Cids :
                          ~InSeq(r.G.containers[c].group_list, gid)
                    /\ \A i \in 1 .. Len(r.G.spaces) :
                          r.G.spaces[i].containers # << >>
                    /\ r.ret \in CapturedError(r)
                    /\ r.reused = 0 /\ r.created = 0

\* C5 witness: a connect failed at listener registration in an address
\* space that had no entry; nothing of it is left
C5_Witness ==
    /\ hist.op = "get_group" /\ hist.step = "listener"
    /\ hist.conn.ret # 0
    /\ vfio_address_spaces = << >>
    /\ open_fds = {}
    /\ \A c \in Cids : containers[c] = NoContainer

\* C8: an EEH operation on a container with two or more groups returns
\* -EPERM and issues no host request; on a container with exactly one group
\* it issues exactly one host request and returns 0 when the host accepts it
\* and the negated host error otherwise.  vfio_eeh_as_op reaches the
\* container when it is the only one of its address space.
C8_EehNeedsOneGroup ==
    /\ \A cid \in Cids :
          containers[cid] # NoContainer =>
             \A o \in vfio_eeh_container_op(containers[cid]) :
                /\ Len(containers[cid].group_list) >= 2
                      => (o.ret = -EPERM /\ o.calls = 0)
                /\ Len(containers[cid].group_list) = 1
                      => /\ o.calls = 1
                         /\ \/ (o.ret = 0 /\ o.err = 0)
                            \/ (o.err \in IoctlErrnos /\ o.ret = -o.err)
    /\ \A as \in ASes :
          LET i == SpaceIndex(vfio_address_spaces, as)
          IN  (i # 0 /\ Len(vfio_address_spaces[i].containers) = 1) =>
                 LET c == containers[vfio_address_spaces[i].containers[1]]
                 IN  \A r \in vfio_eeh_as_op(LifeState, as) :
                        /\ Len(c.group_list) >= 2
                              => (r.ret = -EPERM /\ r.calls = 0)
                        /\ Len(c.group_list) = 1
                              => /\ r.calls = 1
                                 /\ r.ret \in { 0 } \cup
                                       { -e : e \in IoctlErrnos }
                        /\ r.G = LifeState

\* C8 witness: an EEH operation was refused with -EPERM, without a host
\* request, on the container two groups share
C8_Witness ==
    /\ hist.op = "eeh_as_op"
    /\ hist.ret = -EPERM /\ hist.calls = 0
    /\ \E cid \in Cids : Len(containers[cid].group_list) = 2

\* C10: every container of the registry is initialized, has its listener
\* registered and an empty deferred-error slot.  From every reachable state,
\* a vfio_connect_container whose listener registration recorded an error
\* unregisters the listener, returns that error, and leaves the container
\* uninitialized and out of every entry; one that builds a container marks
\* it initialized with the listener registered and no error recorded.
C10_InitializedAfterListener ==
    /\ \A cid \in Cids :
          containers[cid] # NoContainer =>
             /\ containers[cid].initialized
             /\ containers[cid].listener
             /\ containers[cid].error = 0
             /\ cid \in Registered(vfio_address_spaces)
    /\ \A gid \in Gids, as \in ASes :
          (~aborted /\ FreshGid(gid)) =>
             LET G == get_group_opened(LifeState, gid)
             IN  \A r \in vfio_connect_container(G, gid, as) :
                    /\ r.cfinal.initialized
                          => (r.cfinal.listener /\ r.cfinal.error = 0)
                    /\ r.cfinal.error # 0 =>
                          /\ r.step = "listener"
                          /\ r.ret = r.cfinal.error
                          /\ ~r.cfinal.listener
                          /\ ~r.cfinal.initialized
                          /\ r.created = 0
                          /\ r.G.containers = G.containers
                          /\ Registered(r.G.spaces) = Registered(G.spaces)
                    /\ r.created # 0 =>
                          /\ r.ret = 0
                          /\ r.G.containers[r.created] = r.cfinal
                          /\ r.cfinal.initialized
                          /\ r.created \in Registered(r.G.spaces)

\* C10 witness: while an initialized container served one group, a connect
\* for another group recorded an error during listener registration and
\* returned it; its container was never initialized
C10_Witness ==
    /\ hist.op = "get_group" /\ hist.step = "listener"
    /\ hist.conn.cfinal.error # 0
    /\ hist.conn.ret = hist.conn.cfinal.error
    /\ ~hist.conn.cfinal.initialized
    /\ ~hist.conn.cfinal.listener
    /\ Len(vfio_group_list) = 1
    /\ \E cid \in Cids : containers[cid].initialized

---------------------------------------------------------------------------
(* Claims about region mmap windows *)

\* window i is active: mapped in the process and a subregion of the region
Active(i) ==
    /\ region.mmaps[i].mmap # 0
    /\ region.mmaps[i].attached
    /\ i \in region.host

\* C6: when vfio_region_mmap fails on a window, no window of the region is
\* mapped or attached on return, every window mapped earlier in the call was
\* detached and unmapped, and the value returned is the negated errno of the
\* mmap() that failed.
C6_MmapFailureRollsBack ==
    (hist.op = "region_mmap" /\ hist.ret # 0) =>
        /\ \A i \in 1 .. region.nr_mmaps :
              /\ ~Active(i)
              /\ region.mmaps[i].mmap = 0
              /\ ~region.mmaps[i].attached
        /\ region.host = {}
        /\ \A k \in 1 .. Len(hist.reqs) :
              (hist.reqs[k].req = "mmap" /\ hist.reqs[k].err = 0) =>
                 /\ \E m \in k + 1 .. Len(hist.reqs) :
                       hist.reqs[m] = [req |-> "munmap",
                                       window |-> hist.reqs[k].window,
                                       err |-> 0]
                 /\ \E m \in k + 1 .. Len(hist.reqs) :
                       hist.reqs[m] = [req |-> "del_subregion",
                                       window |-> hist.reqs[k].window,
                                       err |-> 0]
        /\ \E k \in 1 .. Len(hist.reqs) :
              /\ hist.reqs[k].req = "mmap"
              /\ hist.reqs[k].err \in MmapErrnos
              /\ hist.reqs[k].window = hist.failed
              /\ hist.ret = -hist.reqs[k].err

\* C6 witness: the mmap() of the third window failed after two windows had
\* been mapped; none is mapped on return
C6_Witness ==
    /\ hist.op = "region_mmap" /\ hist.ret = -ENOMEM
    /\ hist.failed = 2
    /\ region.host = {}
    /\ \A i \in 1 .. region.nr_mmaps : ~Active(i)

\* C7 as stated: when the mapping of window k fails, exactly the windows
\* [0, k) are active after vfio_region_mmap returns.
C7_PrefixStaysActive ==
    (hist.op = "region_mmap" /\ hist.ret # 0) =>
        \A i \in 1 .. region.nr_mmaps : Active(i) <=> i - 1 < hist.failed

\* the requests of a vfio_region_mmap of window 0 .. k - 1 that succeed
RECURSIVE MapPrefix(_)
MapPrefix(k) ==
    IF k = 0 THEN << >>
    ELSE MapPrefix(k - 1) \o << RegionReq("mmap", k, 0),
                                RegionReq("add_subregion", k, 0) >>

\* the requests that undo windows k - 1 .. 0, last mapped first
RECURSIVE UndoPrefix(_)
UndoPrefix(k) ==
    IF k = 0 THEN << >>
    ELSE << RegionReq("del_subregion", k, 0), RegionReq("munmap", k, 0) >>
         \o UndoPrefix(k - 1)

\* C7 amended: when the mapping of window k fails, vfio_region_mmap has
\* mapped and attached the windows [0, k) in order, requested window k
\* once, and then detached and unmapped the windows [0, k) again, last
\* mapped first; window k and the later windows were never mapped, the later
\* ones never requested, and the set of active windows on return is empty.
C7_PrefixUndone ==
    (hist.op = "region_mmap" /\ hist.ret # 0) =>
        /\ hist.failed \in 0 .. region.nr_mmaps - 1
        /\ \E e \in MmapErrnos :
              hist.reqs = MapPrefix(hist.failed)
                          \o << RegionReq("mmap", hist.failed + 1, e) >>
                          \o UndoPrefix(hist.failed)
        /\ { i \in 1 .. region.nr_mmaps : Active(i) } = {}
        /\ \A i \in 1 .. region.nr_mmaps : region.mmaps[i] = VFIOMmap(i)

\* C7 witness: of three windows the second failed; the first was mapped and
\* undone, the third never requested, and no window is active
C7_Witness ==
    /\ hist.op = "region_mmap" /\ hist.ret # 0
    /\ region.nr_mmaps = 3
    /\ hist.failed = 1
    /\ Len(hist.reqs) = 5
    /\ { i \in 1 .. region.nr_mmaps : Active(i) } = {}

---------------------------------------------------------------------------
(* Claims about the listener during and after set-up *)

\* the last host request of the callback hist describes was refused
LastReqFailed(h) ==
    /\ h.reqs # << >>
    /\ h.reqs[Len(h.reqs)].err # 0

\* C11: no callback runs once the process was ended; when the host map of
\* a plain-RAM region_add fails on a container that is not initialized, the
\* deferred error is the one recorded first (this failure's only if none
\* was recorded) and the process goes on; when it fails on an initialized
\* container the process is ended.
C11_FirstErrorOrFatal ==
    [][ /\ ~aborted
        /\ (/\ hist'.op = "region_add"
            /\ memory_region_is_ram(hist'.section.mr)
            /\ LastReqFailed(hist'))
           => IF ~lcont.initialized
              THEN /\ ~aborted'
                   /\ lcont'.error # 0
                   /\ lcont'.error =
                         IF lcont.error # 0 THEN lcont.error
                         ELSE -hist'.reqs[Len(hist'.reqs)].err
              ELSE /\ aborted'
                   /\ lcont'.error = lcont.error ]_vars

\* C11 witness: during set-up a second host map failed with another errno
\* than the first; the slot still holds the first error
C11_Witness ==
    /\ hist.op = "region_add"
    /\ memory_region_is_ram(hist.section.mr)
    /\ LastReqFailed(hist)
    /\ ~lcont.initialized /\ ~aborted
    /\ lcont.error # 0
    /\ lcont.error # -hist.reqs[Len(hist.reqs)].err

\* a region_del the listener acted on: neither skipped nor unaligned
DelActed(h) ==
    /\ h.op = "region_del"
    /\ ~vfio_listener_skipped_section(h.section)
    /\ ~Unaligned(h.section)

\* C14 as stated: a region_del of a guest-IOMMU section issues no host
\* unmap request; only sections that are not guest IOMMU regions are
\* unmapped.
C14_IommuDelNoUnmap ==
    (DelActed(hist) /\ memory_region_is_iommu(hist.section.mr))
        => hist.reqs = << >>

\* C14 amended: a region_del of a guest-IOMMU section releases the first
\* binding of that region and then, like a region_del of any other section,
\* issues one unmap of the page-aligned interval of the section and releases
\* one reference of the backing region; a section that is not a guest IOMMU
\* leaves the bindings alone; the unmap and the release are left out only
\* when the aligned interval is empty.
C14_IommuDelAlsoUnmaps ==
    [][ (DelActed(hist') /\ ~aborted')
        => LET sec == hist'.section
               iova == TARGET_PAGE_ALIGN(sec.offset_within_address_space)
               end == PageFloor(SecEnd(sec) % AddrSpaceSize)
           IN  /\ lcont'.giommu_list =
                      IF memory_region_is_iommu(sec.mr)
                      THEN giommu_remove(lcont.giommu_list, sec.mr)
                      ELSE lcont.giommu_list
               /\ IF iova < end
                  THEN /\ Len(hist'.reqs) = 1
                       /\ hist'.reqs[1].req = "unmap"
                       /\ hist'.reqs[1].iova = iova
                       /\ hist'.reqs[1].size = end - iova
                       /\ lcont'.refs = memory_region_unref(lcont, sec.mr).refs
                  ELSE /\ hist'.reqs = << >>
                       /\ lcont'.refs = lcont.refs ]_vars

\* C14 witness: a region_del of the guest-IOMMU section whose replay had
\* mapped pages: the binding is gone and the unmap removed the pages
C14_Witness ==
    /\ DelActed(hist)
    /\ memory_region_is_iommu(hist.section.mr)
    /\ lcont.giommu_list = << >>
    /\ Len(hist.reqs) = 1
    /\ hist.reqs[1].req = "unmap" /\ hist.reqs[1].err = 0
    /\ hist.predma # {}
    /\ lcont.dma # hist.predma

\* p is a page size the bitmap m offers
IsPageSize(m, p) == p > 0 /\ BitAnd(p, p - 1) = 0 /\ BitAnd(m, p) = p

\* the smallest page size the bitmap m offers
SmallestPage(m) ==
    CHOOSE p \in 1 .. m :
        IsPageSize(m, p) /\ \A q \in 1 .. (p - 1) : ~IsPageSize(m, q)

\* the translations of table tbl that are valid at the addresses
\* 0, g, 2g, ... of the guest IOMMU region, in that order
ReplayEntries(tbl, g) ==
    LET n == (IommuRegionSize + g - 1) \div g
        all == [k \in 1 .. n |-> iommu_translate(tbl, (k - 1) * g)]
    IN  SelectSeq(all, LAMBDA e : e.perm # IOMMU_NONE)

\* the runs of notifying container c of each of entries in turn
RECURSIVE NotifyEach(_, _)
NotifyEach(c, entries) ==
    IF entries = << >>
    THEN { Run(c, << >>, FALSE) }
    ELSE UNION { { Run(r.c, n.reqs \o r.reqs, FALSE) :
                   r \in NotifyEach(n.c, Tail(entries)) } :
                 n \in vfio_iommu_map_notify(c, Head(entries)) }

\* section sec passes the alignment and bounds checks of region_add on c
PassesAddChecks(c, sec) ==
    LET iova == TARGET_PAGE_ALIGN(sec.offset_within_address_space)
        llend == PageFloor(SecEnd(sec))
    IN  /\ ~vfio_listener_skipped_section(sec)
        /\ ~Unaligned(sec)
        /\ iova < llend /\ llend < AddrSpaceSize
        /\ iova >= c.min_iova /\ llend - 1 <= c.max_iova

\* C15: a region_add of a guest-IOMMU section that passes the alignment and
\* bounds checks takes one reference, puts exactly one binding of the
\* section's region at the head of the container's bindings, and issues
\* exactly the host requests of notifying, in order, each translation valid
\* at the steps of the smallest page size the container supports; it issues
\* no request of its own for the section's interval, records no error and
\* does not end the process.
C15_IommuAddBindsAndReplays ==
    \A sec \in Sections :
        (/\ ~aborted /\ lcont.listener
         /\ memory_region_is_iommu(sec.mr)
         /\ PassesAddChecks(lcont, sec))
        => \A tbl \in GuestTables :
              LET bound == [memory_region_ref(lcont, sec.mr) EXCEPT
                               !.giommu_list = << sec.mr >> \o @]
              IN  /\ vfio_listener_region_add(lcont, sec, tbl)
                       = NotifyEach(bound,
                                    ReplayEntries(tbl,
                                        SmallestPage(lcont.iova_pgsizes)))
                  /\ ReplayEntries(tbl, SmallestPage(lcont.iova_pgsizes))
                       = << >>
                     => vfio_listener_region_add(lcont, sec, tbl)
                          = { Run(bound, << >>, FALSE) }

\* C15 witness: the region_add of the guest-IOMMU section on a container
\* offering two page sizes bound the region, and the replay reached the
\* translation of the second page and mapped it
C15_Witness ==
    /\ hist.op = "region_add"
    /\ memory_region_is_iommu(hist.section.mr)
    /\ lcont.giommu_list = << hist.section.mr >>
    /\ lcont.iova_pgsizes = ListenerPgSizes
    /\ Len(hist.reqs) = 1
    /\ hist.reqs[1].req = "map" /\ hist.reqs[1].err = 0
    /\ hist.reqs[1].iova = TARGET_PAGE_SIZE
    /\ hist.reqs[1].size = TARGET_PAGE_SIZE
    /\ TARGET_PAGE_SIZE \in lcont.dma

\* the range of the system address space that holds addr
TargetRange(addr) ==
    CHOOSE r \in { SysRanges[i] : i \in 1 .. Len(SysRanges) } :
        r.base <= addr /\ addr < r.base + r.size

InSysRanges(addr) ==
    \E i \in 1 .. Len(SysRanges) :
        SysRanges[i].base <= addr
            /\ addr < SysRanges[i].base + SysRanges[i].size

\* the notification is rejected: its target is not plain RAM, or the length
\* that can be translated in one piece has a bit in common with the mask
NotifyRejected(iotlb) ==
    \/ ~InSysRanges(iotlb.translated_addr)
    \/ LET r == TargetRange(iotlb.translated_addr)
           len == Min(iotlb.addr_mask + 1,
                      r.base + r.size - iotlb.translated_addr)
       IN  ~memory_region_is_ram(r.mr) \/ BitAnd(len, iotlb.addr_mask) # 0

\* C16: a notification whose target is not plain RAM, or whose achievable
\* length has a bit in common with the address mask, issues no host request
\* and changes no translation; any other notification whose permission
\* grants access makes one call of map for (iova, mask + 1, pointer of the
\* target in its RAM block), writable exactly when the permission includes
\* write and the target region is not read-only: the requests are those of
\* one such call, the first of them the map request itself.
C16_NotifyMapsOnce ==
    hist.op = "notify" =>
        LET io == hist.iotlb
        IN  IF NotifyRejected(io)
            THEN hist.reqs = << >> /\ lcont.dma = hist.predma
            ELSE BitAnd(io.perm, IOMMU_RW) # IOMMU_NONE =>
                   LET r == TargetRange(io.translated_addr)
                       ptr == memory_region_get_ram_ptr(r.mr)
                                + (io.translated_addr - r.base)
                       wr == io.perm \in {IOMMU_WO, IOMMU_RW}
                                /\ ~mr_readonly(r.mr)
                   IN  /\ hist.reqs # << >>
                       /\ hist.reqs[1].req = "map"
                       /\ hist.reqs[1].iova = io.iova
                       /\ hist.reqs[1].size = io.addr_mask + 1
                       /\ hist.reqs[1].vaddr = ptr
                       /\ hist.reqs[1].write = wr
                       /\ \E m \in vfio_dma_map(hist.predma, io.iova,
                                                io.addr_mask + 1, ptr, ~wr) :
                             hist.reqs = m.reqs /\ lcont.dma = m.dma

\* C16 witness: a notification granting read and write whose target is in
\* the read-only region was mapped read-only
C16_Witness ==
    /\ hist.op = "notify"
    /\ ~NotifyRejected(hist.iotlb)
    /\ hist.iotlb.perm = IOMMU_RW
    /\ mr_readonly(TargetRange(hist.iotlb.translated_addr).mr)
    /\ Len(hist.reqs) = 1
    /\ hist.reqs[1].err = 0 /\ ~hist.reqs[1].write
    /\ PagesOf(hist.iotlb.iova, hist.iotlb.addr_mask + 1) \subseteq lcont.dma

\* C16 second case reached: a rejected notification (target not RAM)
C16_RejectedReached ==
    /\ hist.op = "notify"
    /\ NotifyRejected(hist.iotlb)
    /\ hist.iotlb.perm # IOMMU_NONE

\* the callback of h made one call of map (a notification that was not
\* rejected and grants access, or a region_add of RAM) and the host refused
\* the first map request as busy
MapCallBusy(h, ops) ==
    /\ h.op \in ops
    /\ h.op = "region_add" => memory_region_is_ram(h.section.mr)
    /\ h.reqs # << >>
    /\ h.reqs[1].req = "map" /\ h.reqs[1].err = EBUSY

\* C17 as stated: a map request of the notifier that the host refuses as
\* busy is not followed by an unmap and a second map request.
C17_NotifyBusyNotRetried ==
    MapCallBusy(hist, {"notify"}) => Len(hist.reqs) = 1

\* C17 amended: the busy retry belongs to map itself and so applies to the
\* notifier's map calls as to those of region_add: a first map request
\* refused as busy is followed by one unmap of the same range and, when that
\* unmap succeeds, by one second map request with the same range, pointer
\* and write permission; when the unmap fails nothing follows.
C17_BusyRetryOnEveryMap ==
    MapCallBusy(hist, {"notify", "region_add"}) =>
        LET r == hist.reqs
        IN  /\ Len(r) >= 2
            /\ r[2].req = "unmap" /\ SameRange(r[2], r[1])
            /\ r[2].err # 0 => Len(r) = 2
            /\ r[2].err = 0 =>
                  /\ Len(r) = 3
                  /\ r[3].req = "map" /\ SameRange(r[3], r[1])
                  /\ r[3].vaddr = r[1].vaddr /\ r[3].write = r[1].write

\* C17 witness: a notifier map refused as busy, then unmapped, then mapped
C17_Witness ==
    /\ MapCallBusy(hist, {"notify"})
    /\ Len(hist.reqs) = 3
    /\ hist.reqs[2].err = 0 /\ hist.reqs[3].err = 0
    /\ PagesOf(hist.iotlb.iova, hist.iotlb.addr_mask + 1) \subseteq lcont.dma

---------------------------------------------------------------------------
(* Claims about disconnecting and the address-space registry *)

\* C19: disconnecting a group from a container that has another group
\* bound removes only that group from the container: the container stays in
\* the container set of its address space, its listener stays registered,
\* its guest-IOMMU bindings and its descriptor are kept, and nothing else
\* changes; disconnecting the only group of a container unregisters the
\* listener, releases every binding, closes the descriptor, takes the
\* container out of its address space and releases that entry, which stays
\* in the registry exactly when it still holds another container.
C19_DisconnectFrame ==
    \A gid \in Gids :
        (InSeq(vfio_group_list, gid) /\ groups[gid].container # 0) =>
            LET G == LifeState
                H == vfio_disconnect_container(G, gid)
                cid == groups[gid].container
                c == containers[cid]
                i == SpaceIndex(vfio_address_spaces, c.space)
            IN  /\ H.groups = [groups EXCEPT ![gid].container = 0]
                /\ \A k \in Cids \ { cid } : H.containers[k] = containers[k]
                /\ H.group_list = vfio_group_list
                /\ IF c.group_list # << gid >>
                   THEN /\ H.containers[cid] =
                              [c EXCEPT !.group_list = SeqRemove(@, gid)]
                        /\ H.containers[cid].listener = c.listener
                        /\ H.containers[cid].giommu_list = c.giommu_list
                        /\ H.spaces = vfio_address_spaces
                        /\ InSeq(H.spaces[i].containers, cid)
                        /\ H.fds = open_fds /\ ContainerFd(cid) \in H.fds
                   ELSE /\ ~H.containers[cid].listener
                        /\ H.containers[cid].giommu_list = << >>
                        /\ H.containers[cid] = NoContainer
                        /\ H.fds = open_fds \ { ContainerFd(cid) }
                        /\ cid \notin Registered(H.spaces)
                        /\ IF vfio_address_spaces[i].containers = << cid >>
                           THEN /\ SpaceIndex(H.spaces, c.space) = 0
                                /\ Len(H.spaces) = Len(vfio_address_spaces) - 1
                           ELSE H.spaces =
                                  [vfio_address_spaces EXCEPT
                                      ![i].containers = SeqRemove(@, cid)]

\* C19 witness: a group was put and its container, with a guest-IOMMU
\* binding, lives on with its other group
C19_Witness ==
    /\ hist.op = "put_group" /\ hist.step = "group"
    /\ \E cid \in Cids :
          /\ Len(containers[cid].group_list) = 1
          /\ containers[cid].listener
          /\ containers[cid].giommu_list # << >>
          /\ ContainerFd(cid) \in open_fds
          /\ cid \in Registered(vfio_address_spaces)

\* the positions of the entries for as in the registry
EntriesFor(spaces, as) == { i \in 1 .. Len(spaces) : spaces[i].as = as }

\* C20: the registry never holds two entries for one address space; a get
\* for an address space that has an entry returns that entry and leaves the
\* registry as it is, a get for one that has none adds one empty entry, and
\* a second get returns the entry of the first; a put of an entry removes
\* exactly that entry when it holds no container and leaves the registry
\* unchanged when it holds one.
C20_RegistryGetPut ==
    \A as \in ASes :
        LET S0 == vfio_address_spaces
            S1 == vfio_get_address_space(S0, as)
            S2 == vfio_get_address_space(S1, as)
            i == SpacePos(S1, as)
            P1 == vfio_put_address_space(S1, as)
        IN  /\ Cardinality(EntriesFor(S0, as)) <= 1
            /\ EntriesFor(S1, as) = { i }
            /\ SpaceOf(S1, as).as = as
            /\ S2 = S1 /\ SpacePos(S2, as) = i
            /\ IF EntriesFor(S0, as) # {}
               THEN S1 = S0
               ELSE /\ S1[i].containers = << >>
                    /\ Len(S1) = Len(S0) + 1
                    /\ \A b \in ASes \ { as } :
                          \A k \in EntriesFor(S0, b) :
                             \E m \in EntriesFor(S1, b) : S1[m] = S0[k]
            /\ IF S1[i].containers = << >>
               THEN /\ EntriesFor(P1, as) = {}
                    /\ P1 = S0
               ELSE P1 = S1

\* C20 witness: a connect to an address space failed after its get, while
\* the registry holds an entry with a container: the put that ended the
\* connect removed an empty entry or left a used one
C20_Witness ==
    /\ hist.op = "get_group"
    /\ hist.conn.ret # 0
    /\ vfio_address_spaces # << >>
    /\ \A i \in 1 .. Len(vfio_address_spaces) :
          vfio_address_spaces[i].containers # << >>

---------------------------------------------------------------------------
(* Claims about the global reset *)

\* the devices that are in the device list of a registered group
RegisteredDevices ==
    { d \in Devs : \E i \in 1 .. Len(vfio_group_list) :
                      InSeq(groups[vfio_group_list[i]].device_list, d) }

---------------------------------------------------------------------------
(* Claims about trapped region accesses *)

\* C12 as stated: every trapped access to a region, read or write, whether
\* the positioned device access transferred all its bytes or not, ends with
\* one call of the device's end-of-interrupt hook.
C12_EveryAccessEndsWithEoi ==
    hist.op \in { "region_read", "region_write" } => hist.eoi = 1


---------------------------------------------------------------------------
(* Claims about bounds, skipped sections and references of the listener *)

\* section sec passes the alignment checks of region_add but its aligned
\* interval begins below c's min_iova or ends above c's max_iova
OutOfBounds(c, sec) ==
    LET iova == TARGET_PAGE_ALIGN(sec.offset_within_address_space)
        llend == PageFloor(SecEnd(sec))
    IN  /\ ~vfio_listener_skipped_section(sec)
        /\ ~Unaligned(sec)
        /\ iova < llend /\ llend < AddrSpaceSize
        /\ (iova < c.min_iova \/ llend - 1 > c.max_iova)

\* C21: a region_add whose aligned interval begins below the container's
\* min_iova or ends above its max_iova issues no host request, leaves the
\* host translations, the references and the guest-IOMMU bindings as they
\* were; all it does is record -EFAULT (when no error is recorded yet) before
\* the container is initialized, or end the process afterwards.
C21_OutOfBoundsAddNoEffect ==
    [][ (/\ ~aborted
         /\ hist'.op = "region_add"
         /\ OutOfBounds(lcont, hist'.section))
        => /\ hist'.reqs = << >>
           /\ lcont'.refs = lcont.refs
           /\ lcont'.giommu_list = lcont.giommu_list
           /\ lcont'.dma = lcont.dma
           /\ IF lcont.initialized
              THEN aborted' /\ lcont' = lcont
              ELSE /\ ~aborted'
                   /\ lcont' = [lcont EXCEPT
                                   !.error = IF @ = 0 THEN -EFAULT ELSE @] ]_vars

\* C21 witness: during set-up the guest-IOMMU section, which begins below
\* the window of the container, was added and only the error was recorded
C21_Witness ==
    /\ hist.op = "region_add"
    /\ memory_region_is_iommu(hist.section.mr)
    /\ OutOfBounds(lcont, hist.section)
    /\ ~aborted
    /\ lcont.error = -EFAULT
    /\ hist.reqs = << >>
    /\ lcont.giommu_list = << >>
    /\ lcont.refs = NoRefs

\* C22: put_group on a registered group that still has a device changes
\* nothing: the group stays in the global list and bound to its container,
\* and no descriptor is closed; put_group on a group without devices takes
\* it out of the list; and no step of any operation takes a group out of the
\* list while the group has a device.
C22_PutGroupNeedsNoDevices ==
    [][ /\ \A gid \in Gids :
              InSeq(vfio_group_list, gid) =>
                  IF groups[gid].device_list # << >>
                  THEN vfio_put_group(LifeState, gid) = LifeState
                  ELSE ~InSeq(vfio_put_group(LifeState, gid).group_list, gid)
        /\ \A gid \in Gids :
              (InSeq(vfio_group_list, gid) /\ ~InSeq(vfio_group_list', gid))
                  => groups[gid].device_list = << >> ]_vars

\* C22 witness: put_group was called on a group with a device and did
\* nothing, with the group still bound and its descriptor open
C22_Witness ==
    /\ hist.op = "put_group" /\ hist.step = "none"
    /\ \E gid \in Gids :
          /\ InSeq(vfio_group_list, gid)
          /\ groups[gid].device_list # << >>
          /\ groups[gid].container # 0
          /\ InSeq(containers[groups[gid].container].group_list, gid)
          /\ GroupFd(gid) \in open_fds
    /\ \A gid \in Gids :
          InSeq(vfio_group_list, gid) => groups[gid].device_list # << >>

\* the section is neither guest RAM nor a guest IOMMU region, or the top
\* bit of its offset in the address space is set
NotForDma(sec) ==
    \/ sec.mr \notin { "ram0", "ram1", "rom", "iommu" }
    \/ (sec.offset_within_address_space \div TopBit) % 2 = 1

\* C23: region_add and region_del of a section that is neither guest RAM
\* nor a guest IOMMU region, or whose offset in the address space has its
\* top bit set, issue no host request and leave the container (host
\* translations, references, guest-IOMMU bindings, recorded error) and the
\* process as they were.
C23_SkippedSectionNoEffect ==
    [][ (/\ hist'.op \in { "region_add", "region_del" }
         /\ NotForDma(hist'.section))
        => /\ hist'.reqs = << >>
           /\ lcont' = lcont
           /\ aborted' = aborted ]_vars

\* C23 witness: the RAM section in the upper half of the address space was
\* added and then deleted while other sections are mapped
C23_Witness ==
    /\ hist.op = "region_del"
    /\ hist.after_add
    /\ memory_region_is_ram(hist.section.mr)
    /\ NotForDma(hist.section)
    /\ hist.reqs = << >>
    /\ lcont.dma # {} /\ lcont.dma = hist.predma

\* C25 as stated: a notification whose permission is none issues exactly
\* one host unmap of (iova, mask + 1), whatever its translated address
\* resolves to.
C25_NoneAlwaysUnmaps ==
    (hist.op = "notify" /\ hist.iotlb.perm = IOMMU_NONE) =>
        /\ Len(hist.reqs) = 1
        /\ hist.reqs[1].req = "unmap"
        /\ hist.reqs[1].iova = hist.iotlb.iova
        /\ hist.reqs[1].size = hist.iotlb.addr_mask + 1

\* a section whose region_del releases a reference: it is not skipped, is
\* aligned and holds a whole page
DelReleases(sec) ==
    /\ ~NotForDma(sec)
    /\ ~Unaligned(sec)
    /\ TARGET_PAGE_ALIGN(sec.offset_within_address_space)
          < PageFloor(SecEnd(sec) % AddrSpaceSize)

\* C26 as stated: the references held on each backing region equal the
\* sections of that region that were added and not yet deleted and whose
\* region_del will release a reference, also after adds that were rejected
\* as out of bounds or whose map failed during set-up.
C26_RefsMatchAdded ==
    ~aborted =>
        \A mr \in MRs :
            lcont.refs[mr]
                = Cardinality({ s \in added : s.mr = mr /\ DelReleases(s) })

---------------------------------------------------------------------------
(* Claims about the registry of groups, containers and address spaces *)

\* the containers whose group list holds gid
ContainersOf(gid) == { c \in Cids : InSeq(containers[c].group_list, gid) }

\* the positions of the registry entries whose container list holds cid
EntriesOf(cid) ==
    { i \in 1 .. Len(vfio_address_spaces) :
         InSeq(vfio_address_spaces[i].containers, cid) }

\* C24: every group of the global list is bound to a container, that
\* container is the only one whose group list holds the group, the container
\* is in the container list of exactly one entry of the registry, and that
\* entry is the one of the container's address space.
C24_GroupsBound ==
    \A i \in 1 .. Len(vfio_group_list) :
        LET gid == vfio_group_list[i]
            cid == groups[gid].container
        IN  /\ cid \in Cids
            /\ ContainersOf(gid) = { cid }
            /\ Cardinality(EntriesOf(cid)) = 1
            /\ \A k \in EntriesOf(cid) :
                  vfio_address_spaces[k].as = containers[cid].space

\* C24 witness: after a put_group two groups had shared a container of
\* which one group is left, and a second address space has been in use
C24_Witness ==
    /\ hist.op = "put_group" /\ hist.step = "group"
    /\ Len(vfio_group_list) = 1
    /\ ContainersOf(vfio_group_list[1]) # {}
    /\ Len(vfio_address_spaces) = 1

\* C24 reached with two groups in two address spaces
C24_TwoSpaces ==
    /\ Len(vfio_group_list) = 2
    /\ Len(vfio_address_spaces) = 2
    /\ groups[1].container # groups[2].container

\* C27: after every step of get_group (succeeding or failing), put_group,
\* get_device, put_base_device, eeh_as_ok and eeh_as_op no entry of the
\* registry has an empty container list, and the two EEH calls leave the
\* registry exactly as it was.
C27_NoEmptyEntry ==
    [][ /\ \A i \in 1 .. Len(vfio_address_spaces') :
              vfio_address_spaces'[i].containers # << >>
        /\ hist'.op \in { "eeh_as_ok", "eeh_as_op" }
              => vfio_address_spaces' = vfio_address_spaces ]_vars

\* C27 witness: an EEH operation on an address space without a container
\* answered -ENODEV and the registry is as empty as before
C27_Witness ==
    /\ hist.op = "eeh_as_op"
    /\ hist.ret = -ENODEV
    /\ hist.calls = 0
    /\ vfio_address_spaces = << >>

\* C28: the reset handler is registered once when the global group list is
\* not empty and not at all when it is empty: the step that adds the first
\* group registers it, the step that removes the last group unregisters it,
\* no other step changes the registration, and a get_group that returns no
\* group leaves the group list and the registration as they were.
C28_ResetRegisteredIffGroups ==
    [][ /\ reset_registered' = IF vfio_group_list' # << >> THEN 1 ELSE 0
        /\ reset_registered' - reset_registered =
              (IF vfio_group_list' # << >> THEN 1 ELSE 0)
                  - (IF vfio_group_list # << >> THEN 1 ELSE 0)
        /\ (hist'.op = "get_group" /\ hist'.ret = 0)
              => /\ reset_registered' = reset_registered
                 /\ vfio_group_list' = vfio_group_list ]_vars

\* C28 witness: a second group was added and the handler is registered once
C28_Witness ==
    /\ hist.op = "get_group" /\ hist.step = "ok"
    /\ Len(vfio_group_list) = 2
    /\ reset_registered = 1

\* C28 reached: the last group was removed and the handler unregistered
C28_LastGroupRemoved ==
    /\ hist.op = "put_group" /\ hist.step # "none"
    /\ vfio_group_list = << >>
    /\ reset_registered = 0

\* C28 reached: a get_group failed while a group is registered
C28_FailedGetGroup ==
    /\ hist.op = "get_group" /\ hist.ret = 0
    /\ vfio_group_list # << >>
    /\ reset_registered = 1

\* C29: get_group for a group id that is in the global list has one
\* outcome: it returns that group when the address space of the group's
\* container is the one asked for and no group otherwise; either way every
\* group, container, registry entry and open descriptor is as before, and
\* the process runs on.
C29_GetExistingGroup ==
    \A gid \in Gids, as \in ASes :
        InSeq(vfio_group_list, gid) =>
            \A r \in vfio_get_group(LifeState, gid, as) :
                /\ r.G = LifeState
                /\ ~r.aborted
                /\ r.created = 0 /\ r.reused = 0
                /\ r.ret = IF containers[groups[gid].container].space = as
                           THEN gid ELSE 0

\* C29 witness: get_group of a registered group for another address space
\* returned no group, while the group is still bound to its container
C29_Witness ==
    /\ hist.op = "get_group" /\ hist.step = "other_as" /\ hist.ret = 0
    /\ vfio_group_list # << >>
    /\ \A i \in 1 .. Len(vfio_group_list) :
          groups[vfio_group_list[i]].container # 0

\* C29 reached: get_group of a registered group for its own address space
C29_FoundReached ==
    /\ hist.op = "get_group" /\ hist.step = "found"
    /\ hist.ret # 0 /\ InSeq(vfio_group_list, hist.ret)

---------------------------------------------------------------------------
(* Claims about the life of the mmap windows of a region *)

\* the windows that are mapped in the host and those attached to the
\* region, after the requests reqs were made in order from the sets w;
\* ok is false once a window is mapped or attached while it already is, or
\* unmapped or detached while it is not
RECURSIVE AfterReqs(_, _)
AfterReqs(w, reqs) ==
    IF reqs = << >> THEN w
    ELSE LET q == Head(reqs)
             i == q.window + 1
             w1 == CASE q.req = "mmap" /\ q.err = 0 ->
                           [w EXCEPT !.ok = @ /\ i \notin w.live,
                                     !.live = @ \cup { i }]
                    [] q.req = "munmap" ->
                           [w EXCEPT !.ok = @ /\ i \in w.live,
                                     !.live = @ \ { i }]
                    [] q.req = "add_subregion" ->
                           [w EXCEPT !.ok = @ /\ i \notin w.att,
                                     !.att = @ \cup { i }]
                    [] q.req = "del_subregion" ->
                           [w EXCEPT !.ok = @ /\ i \in w.att,
                                     !.att = @ \ { i }]
                    [] OTHER -> w
         IN  AfterReqs(w1, Tail(reqs))

Attached(rg) == { i \in 1 .. rg.nr_mmaps : rg.mmaps[i].attached }

\* vfio_region_exit has run since the windows were mapped
Quiesced(rg) ==
    \E i \in 1 .. rg.nr_mmaps : rg.mmaps[i].mmap # 0 /\ ~rg.mmaps[i].attached

WindowOps == { "region_mmap", "region_exit", "region_finalize",
               "set_enabled" }

\* C30: in any sequence of vfio_region_mmap (succeeding or failing),
\* vfio_region_mmaps_set_enabled, vfio_region_exit (not repeated) and
\* vfio_region_finalize, a window is unmapped only while its mapping is
\* live and detached only while it is attached, so no mapping is unmapped
\* twice and no window detached twice, and the windows live and attached
\* afterwards are those the requests leave; after a failed vfio_region_mmap
\* the pointer of every window is null and vfio_region_exit,
\* vfio_region_mmaps_set_enabled and vfio_region_finalize make no request
\* about any window and change none.
C30_WindowsReleasedOnce ==
    [][ (/\ hist'.op \in WindowOps
         /\ ~(hist'.op = "region_exit" /\ Quiesced(region)))
        => LET w == AfterReqs([live |-> region.host, att |-> Attached(region),
                               ok |-> TRUE], hist'.reqs)
           IN  /\ w.ok /\ ~aborted'
               /\ region'.host = w.live
               /\ Attached(region') = w.att
               /\ (hist'.op = "region_mmap" /\ hist'.ret # 0) =>
                     /\ \A i \in 1 .. region'.nr_mmaps :
                           region'.mmaps[i].mmap = 0
                     /\ region'.host = {} /\ Attached(region') = {}
                     /\ vfio_region_exit(region').reqs = << >>
                     /\ vfio_region_exit(region').region = region'
                     /\ \A en \in BOOLEAN :
                           vfio_region_mmaps_set_enabled(region', en) = region'
                     /\ vfio_region_finalize(region').reqs = << >>
                     /\ vfio_region_finalize(region').region.mmaps
                           = region'.mmaps ]_vars

\* C30 witness: a region with windows was mapped, quiesced and finalized;
\* finalize unmapped every window and nothing is live or attached
C30_Witness ==
    /\ hist.op = "region_finalize"
    /\ region.nr_mmaps >= 2
    /\ Len(hist.reqs) = region.nr_mmaps
    /\ \A k \in 1 .. Len(hist.reqs) : hist.reqs[k].req = "munmap"
    /\ region.host = {} /\ Attached(region) = {}

\* C30 reached: finalize after a failed vfio_region_mmap that had mapped and
\* undone a window made no request
C30_FinalizeAfterFailure ==
    /\ hist.op = "region_finalize"
    /\ region.mem /\ region.nr_mmaps >= 2
    /\ hist.reqs = << >>

---------------------------------------------------------------------------
(* Claims about the page-aligned interval of a section *)

\* region_add and region_del compute the same interval for section sec and
\* agree on whether it is empty
SameInterval(sec) ==
    LET a == region_add_interval(sec)
        d == region_del_interval(sec)
    IN  /\ a.iova = d.iova
        /\ a.llend = d.end
        /\ (a.iova >= a.llend) <=> (d.iova >= d.end)

\* C31 as stated: for every section that is not skipped, region_add and
\* region_del compute the same page-aligned interval and treat it as empty
\* in the same cases, also when offset + size reaches the top of the
\* address space.
C31_SameInterval ==
    (/\ hist.op \in { "region_add", "region_del" }
     /\ ~NotForDma(hist.section)
     /\ ~Unaligned(hist.section))
        => SameInterval(hist.section)

\* below the top of the address space the two callbacks do agree
C31_SameIntervalBelowTop ==
    (/\ hist.op \in { "region_add", "region_del" }
     /\ ~NotForDma(hist.section)
     /\ ~Unaligned(hist.section)
     /\ SecEnd(hist.section) < AddrSpaceSize)
        => SameInterval(hist.section)

=============================================================================
